---- MODULE Spec2Model ----
(***************************************************************************)
(* Model of the VE.Bus protocol engine (vebus_handler.{h,cpp},             *)
(* vebus_messages.h): frame model, frame assembler, command queue with     *)
(* retry, and the communication task.                                      *)
(***************************************************************************)
EXTENDS Integers, Sequences, FiniteSets, TLC

(***************************************************************************)
(* Program constants                                                       *)
(***************************************************************************)
VEBUS_FRAME_SIZE == 128
VEBUS_SYNC_BYTE == 255
VEBUS_MAX_RETRY_COUNT == 3
VEBUS_TIMEOUT_MS == 1000
VEBUS_MK3_MAX_DATA_SIZE == 120
VEBUS_QUEUE_SIZE == 10
VEBUS_MK3_HEADER1 == 152
VEBUS_MK3_HEADER2 == 247
VEBUS_MK3_DATA_FRAME == 254
VEBUS_MK3_END_FRAME == 255
VEBUS_MK3_STUFF_BYTE == 250
VEBUS_CMD_SET_SWITCH == 5
VEBUS_CMD_SET_ESS_POWER == 55
VEBUS_CMD_SET_INPUT_CURRENT == 65
\* sizeof(txBuffer) in sendFrameMk3Correct
TX_BUFFER_SIZE == 64

(***************************************************************************)
(* Byte arithmetic                                                         *)
(***************************************************************************)
Byte == 0..255

\* uint8_t wraparound
U8(x) == x % 256

\* uint32_t values (millis(), deadlines) as <<high half, low half>> of 16 bits
\* each, with the wraparound of 32-bit unsigned arithmetic
Time32(ms) == <<ms \div 65536, ms % 65536>>

\* a + ms, ms a number of milliseconds
Add32(a, ms) ==
    LET low == a[2] + (ms % 65536)
        high == a[1] + (ms \div 65536) + (low \div 65536)
    IN  <<high % 65536, low % 65536>>

\* a - b
Sub32(a, b) ==
    LET low == 65536 + a[2] - b[2]
        high == 65536 + a[1] - b[1] - (IF low < 65536 THEN 1 ELSE 0)
    IN  <<high % 65536, low % 65536>>

\* a > b
Gt32(a, b) == a[1] > b[1] \/ (a[1] = b[1] /\ a[2] > b[2])

Min(a, b) == IF a < b THEN a ELSE b

\* s[i] with a 0-based index; bytes never written read as 0 (memset)
At(s, i) == IF i >= 0 /\ i < Len(s) THEN s[i + 1] ELSE 0

\* s[a] + ... + s[b]
RECURSIVE SumRange(_, _, _)
SumRange(s, a, b) ==
    IF a > b THEN 0
    ELSE IF a = b THEN s[a]
    ELSE SumRange(s, a, (a + b) \div 2) + SumRange(s, (a + b) \div 2 + 1, b)

SumBytes(s) == SumRange(s, 1, Len(s))

\* the first n elements of s, zero padded when s is shorter (array reads)
Prefix(s, n) == [i \in 1..n |-> IF i <= Len(s) THEN s[i] ELSE 0]

(***************************************************************************)
(* Frame model (struct VeBusFrame)                                         *)
(***************************************************************************)
\* VeBusFrame::VeBusFrame()
NewFrame ==
    [sync |-> VEBUS_SYNC_BYTE, address |-> 0, command |-> 0, length |-> 0,
     data |-> <<>>, checksum |-> 0, frameNumber |-> 0, isMk3Frame |-> FALSE]

\* the data bytes a loop "for (i = 0; i < length && i < MAX_DATA; i++)" visits
DataBytes(f) == Prefix(f.data, Min(f.length, VEBUS_MK3_MAX_DATA_SIZE))

calculateChecksumMk2_NoSync(f) ==
    U8(85 - f.address - f.command - f.length - SumBytes(DataBytes(f)))

\* VeBusFrame::calculateChecksumMk2: the checksum value it stores
calculateChecksumMk2(f) ==
    U8(85 - f.sync - f.address - f.command - f.length - SumBytes(DataBytes(f)))

isChecksumValidMk2_Always(f) == TRUE

\* VeBusFrame::isChecksumValidMk2
isChecksumValidMk2(f) ==
    U8(85 - f.sync - f.address - f.command - f.length - SumBytes(DataBytes(f)))
        = f.checksum

\* The loops of calculateChecksumMk3 and isChecksumValidMk3 read data[i - 4]
\* for i = 2, 3: data[-2] and data[-1], outside the array.  With the members
\* laid out in declaration order these are the bytes of command and length;
\* being an out-of-bounds read the values are otherwise unconstrained.
OobValues == {0, 255}
OobChoices == {<<"layout">>} \cup (OobValues \X OobValues)

\* <<data[-2], data[-1]>> of frame f under the choice c
OobReads(f, c) == IF c = <<"layout">> THEN <<f.command, f.length>> ELSE c

\* VeBusFrame::isChecksumValidMk3, oob: the choice for the out-of-bounds reads
isChecksumValidMk3(f, oob) ==
    U8(OobReads(f, oob)[1] + OobReads(f, oob)[2]
       + SumBytes(Prefix(f.data, f.length))) = 0

\* VeBusFrame::isChecksumValid
isChecksumValid(f, oob) ==
    IF f.isMk3Frame THEN isChecksumValidMk3(f, oob) ELSE isChecksumValidMk2(f)

\* VeBusFrame::calculateChecksumMk3, oob = <<data[-2], data[-1]>>
calculateChecksumMk3(f, oob) ==
    LET cs == U8(1 - OobReads(f, oob)[1] - OobReads(f, oob)[2]
                 - SumBytes(Prefix(f.data, f.length)))
    IN  IF cs >= 251 THEN 112 + (cs - 250) ELSE cs

(***************************************************************************)
(* Encoding (sendFrame, sendFrameMk3Correct)                               *)
(***************************************************************************)
\* the replacement of one byte in commandReplaceFAtoFF
stuffPair(c) ==
    IF c >= 250 THEN <<VEBUS_MK3_STUFF_BYTE, 112 + (c % 16)>> ELSE <<c>>

\* the loop of commandReplaceFAtoFF from inbuf[i] on (i counts from 1)
RECURSIVE ReplaceFrom(_, _)
ReplaceFrom(inbuf, i) ==
    IF i > Len(inbuf) THEN <<>>
    ELSE stuffPair(inbuf[i]) \o ReplaceFrom(inbuf, i + 1)

\* VeBusHandler::commandReplaceFAtoFF
commandReplaceFAtoFF(inbuf) == ReplaceFrom(inbuf, 1)

\* VeBusHandler::appendChecksum
appendChecksum(buf) ==
    LET cs == U8(1 - SumBytes(SubSeq(buf, 3, Len(buf))))
    IN  buf \o (IF cs >= 251 THEN <<VEBUS_MK3_STUFF_BYTE, cs - 250>> ELSE <<cs>>)
            \o <<VEBUS_MK3_END_FRAME>>

\* sendFrameMk3Correct: the bytes handed to serial->write
Mk3WireBytes(f) ==
    LET room     == (TX_BUFFER_SIZE - 3) - 8
        txBuffer == <<VEBUS_MK3_HEADER1, VEBUS_MK3_HEADER2, VEBUS_MK3_DATA_FRAME,
                      f.frameNumber, 0, 230, f.command, 2>>
                    \o Prefix(f.data, Min(f.length, room))
        stuffed  == commandReplaceFAtoFF(SubSeq(txBuffer, 5, Len(txBuffer)))
    IN  appendChecksum(SubSeq(txBuffer, 1, 4) \o stuffed)

\* sendFrame, MK2 branch: the bytes written one by one
Mk2WireBytes(f) ==
    <<f.sync, f.address, f.command, f.length>> \o DataBytes(f) \o <<f.checksum>>

WireBytes(f) == IF f.isMk3Frame THEN Mk3WireBytes(f) ELSE Mk2WireBytes(f)

(***************************************************************************)
(* Decoding (isFrameComplete, parseMk2Frame, parseMk3Frame)                *)
(***************************************************************************)
\* VeBusHandler::isFrameComplete on rxBuffer[0 .. rxBufferPos-1]
isFrameComplete(buf) ==
    IF Len(buf) < 4 THEN FALSE
    ELSE IF At(buf, 0) = VEBUS_MK3_HEADER1 /\ At(buf, 1) = VEBUS_MK3_HEADER2
         THEN At(buf, Len(buf) - 1) = VEBUS_MK3_END_FRAME
    ELSE IF At(buf, 0) = VEBUS_SYNC_BYTE
         THEN Len(buf) >= U8(4 + At(buf, 3) + 1)
    ELSE FALSE

\* VeBusHandler::parseMk2Frame: [ok, frame]
parseMk2Frame(frame, buf) ==
    IF Len(buf) < 5 THEN [ok |-> FALSE, frame |-> frame]
    ELSE
      LET hdr == [frame EXCEPT !.isMk3Frame = FALSE, !.sync = At(buf, 0),
                               !.address = At(buf, 1), !.command = At(buf, 2),
                               !.length = At(buf, 3)]
          expectedLength == U8(4 + hdr.length + 1)
          dataLength == Min(hdr.length, VEBUS_MK3_MAX_DATA_SIZE)
          full == [hdr EXCEPT !.data = SubSeq(buf, 5, 4 + dataLength),
                              !.checksum = At(buf, 4 + dataLength)]
      IN  IF Len(buf) < expectedLength THEN [ok |-> FALSE, frame |-> hdr]
          ELSE [ok |-> isChecksumValidMk2(full), frame |-> full]

\* the byte rebuilt from the byte that follows the stuff byte (parseMk3Frame)
unstuffByte(nextByte) ==
    IF nextByte >= 112 /\ nextByte <= 127
    THEN U8(250 + (nextByte % 16))
    ELSE U8(nextByte + 128)

\* the destuffing loop of parseMk3Frame from index i (0-based) up to the
\* byte before the end marker
RECURSIVE Mk3Destuff(_, _)
Mk3Destuff(buf, i) ==
    IF i >= Len(buf) - 1 THEN <<>>
    ELSE IF At(buf, i) = VEBUS_MK3_STUFF_BYTE /\ i < Len(buf) - 2
         THEN <<unstuffByte(At(buf, i + 1))>> \o Mk3Destuff(buf, i + 2)
         ELSE <<At(buf, i)>> \o Mk3Destuff(buf, i + 1)

\* destuffing of a stuffed region standing between the 4 header bytes and
\* the end marker
DestuffRegion(region) ==
    Mk3Destuff(<<VEBUS_MK3_HEADER1, VEBUS_MK3_HEADER2, VEBUS_MK3_DATA_FRAME, 0>>
               \o region \o <<VEBUS_MK3_END_FRAME>>, 4)

\* VeBusHandler::parseMk3Frame: [ok, frame], oob = <<data[-2], data[-1]>>
\* as read by isChecksumValidMk3
parseMk3Frame(frame, buf, oob) ==
    IF Len(buf) < 8 THEN [ok |-> FALSE, frame |-> frame]
    ELSE IF At(buf, Len(buf) - 1) # VEBUS_MK3_END_FRAME
         THEN [ok |-> FALSE, frame |-> [frame EXCEPT !.isMk3Frame = TRUE]]
    ELSE
      LET destuffedData == Mk3Destuff(buf, 4)
          destuffedLength == Len(destuffedData)
          hdr == [frame EXCEPT !.isMk3Frame = TRUE, !.frameNumber = At(buf, 3)]
          len == U8(destuffedLength - 4)
          dataLength == Min(len, VEBUS_MK3_MAX_DATA_SIZE)
          full == [hdr EXCEPT !.address = At(destuffedData, 0),
                              !.command = At(destuffedData, 1),
                              !.length = len,
                              !.data = SubSeq(destuffedData, 3, 2 + dataLength),
                              !.checksum = At(destuffedData, destuffedLength - 1)]
      IN  IF destuffedLength < 4 THEN [ok |-> FALSE, frame |-> hdr]
          ELSE [ok |-> isChecksumValidMk3(full, oob), frame |-> full]

\* receiveFrame from "rxBuffer[rxBufferPos++] = byte" to the end of the pass:
\* the byte is stored and the buffer is checked for a complete frame
storeByte(frame, buf, byte, oob) ==
    LET b == Append(buf, byte)
        p == IF At(b, 0) = VEBUS_MK3_HEADER1 /\ At(b, 1) = VEBUS_MK3_HEADER2
             THEN parseMk3Frame(frame, b, oob)
             ELSE IF At(b, 0) = VEBUS_SYNC_BYTE
                  THEN parseMk2Frame(frame, b)
                  ELSE [ok |-> FALSE, frame |-> frame]
    IN  IF ~isFrameComplete(b)
        THEN [kind |-> "more", buf |-> b, frame |-> frame]
        ELSE [kind |-> IF p.ok THEN "valid" ELSE "invalid",
              buf |-> <<>>, frame |-> p.frame]

\* One pass of the while loop of receiveFrame for one byte read from the
\* serial port.  kind: "skip" (byte discarded in Idle), "more" (stored, frame
\* not complete), "overflow" (buffer full: reset, framesDropped++), "valid"
\* (return true), "invalid" (checksumErrors++).
receiveByte(frame, buf, byte, oob) ==
    IF Len(buf) = 0
    THEN IF byte = VEBUS_MK3_HEADER1 \/ byte = VEBUS_SYNC_BYTE
         THEN [kind |-> "more", buf |-> <<byte>>, frame |-> frame]
         ELSE [kind |-> "skip", buf |-> <<>>, frame |-> frame]
    ELSE IF Len(buf) >= VEBUS_FRAME_SIZE
         THEN [kind |-> "overflow", buf |-> <<>>, frame |-> frame]
    ELSE storeByte(frame, buf, byte, oob)

(***************************************************************************)
(* Bounds of the model                                                     *)
(***************************************************************************)
\* calls of the command interface in the scenarios with a talking device
MaxCalls == 2
\* calls of the command interface in the scenario that fills the queue
MaxBurst == 11
\* messages the device puts on the bus
MaxInbound == 2
\* writes to the serial port that fail
MaxWriteFails == 4
\* writes that fail, and the time the clock reaches, in the scenario that
\* fills the queue
MaxBurstFails == 2
MaxBurstNow == 1001
\* the time the clock reaches in the receive scenario
MaxRxNow == 2002
\* acknowledgements the device sends in the command scenario
MaxAcks == 1
\* the clock stops after this many milliseconds
MaxNow == 4004
\* calls of begin()
MaxBegins == 1
\* calls of begin(), calls of the facade and the time the clock reaches in
\* the scenario of starts and stops
MaxLifeBegins == 2
MaxLifeFacade == 2
MaxLifeNow == 2002
\* messages of the device and the time the clock reaches in the scenario of
\* the online flag
MaxOnlineInbound == 1
MaxOnlineNow == 7500
\* command submissions, messages of the device, calls of the facade and the
\* time the clock reaches in the scenario of the facade
MaxFacadeCalls == 1
MaxFacadeInbound == 1
MaxFacadeOps == 2
MaxFacadeNow == 5001
\* acknowledgements of the device and the time the clock reaches in the
\* scenario of the late response
MaxLateAcks == 1
MaxLateNow == 1001

\* command submissions, messages of the device and the time the clock
\* reaches in the scenario of the response matching
MaxMatchCalls == 1
MaxMatchInbound == 1
MaxMatchNow == 1001

\* command submissions, messages of the device and the time the clock
\* reaches in the scenario of the loop's passes
MaxTickCalls == 1
MaxTickInbound == 2
MaxTickNow == 1001

\* command submissions and the time the clock reaches in the scenario of the
\* unanswered command
MaxRetryCalls == 1
MaxRetryNow == 5005

\* command submissions, calls of the facade, bytes written one by one and the
\* time the clock reaches in the scenario of the direction lines
MaxPinCalls == 1
MaxPinOps == 1
MaxPinBytes == 2
MaxPinNow == 2002

\* the scenario of the frame assembler: device messages and the clock
\* (ms, advanced in TimeSteps)
MaxStreamInbound == 1
MaxStreamNow == 1001

\* the scenario of the two readers: submissions, facade calls and device
\* streams
MaxOverlapCalls == 1
MaxOverlapOps == 1
MaxOverlapInbound == 1

\* the scenario of the partial frame: device messages and the clock (ms,
\* advanced in TimeSteps)
MaxPartialInbound == 2
MaxPartialNow == 1001

\* the scenario of the clock's wraparound: submissions, and half the time
\* (ms) the clock takes from 0 to 500 ms before 2^32
MaxWrapCalls == 1
HalfWrapMs == 2147483398

\* the scenario of the mutex: facade calls, device messages and the clock
\* (ms, advanced in FacadeSteps)
MaxLockOps == 2
MaxLockInbound == 1
MaxLockNow == 5001

\* caller threads (HTTP handlers, MQTT callbacks)
Callers == {"c1", "c2"}

(***************************************************************************)
(* State                                                                   *)
(***************************************************************************)
VARIABLES
    serial,             \* HardwareSerial* serial: "null" or "open"
    taskHandle,         \* "null", "live", or "freed" (the deleted object's address)
    commandQueue,       \* QueueHandle_t: "null", "live" or "freed"
    mutex,              \* SemaphoreHandle_t: "null", "live" or "freed"
    queueItems,         \* the items in the FreeRTOS queue, oldest first
    mutexOwner,         \* "none" or the thread holding the mutex
    isRunning,
    lastCommandId,
    deviceState,
    stats,
    rxBuffer,           \* rxBuffer[0 .. rxBufferPos-1]
    lastRxTime,
    pendingCommand,
    waitingForResponse,
    responseTimeout,
    task,               \* communicationTask: pc, locals and function statics
    beginPc,            \* position of the thread that calls begin() and end()
    callers,            \* position of each caller thread
    serialIn,           \* bytes received by the UART and not yet read
    lastSent,           \* the frame most recently passed to sendFrame, which
                        \* writes WireBytes(lastSent)
    now,                \* millis()
    fault,              \* "none", or how the firmware crashed
    env,                \* counters bounding the environment
    h,                  \* codec harness
    rs485               \* the direction lines of the RS485 transceiver, and
                        \* the threads inside the write section of sendFrame

vars == <<serial, taskHandle, commandQueue, mutex, queueItems, mutexOwner,
          isRunning, lastCommandId, deviceState, stats, rxBuffer, lastRxTime,
          pendingCommand, waitingForResponse, responseTimeout, task, beginPc,
          callers, serialIn, lastSent, now, fault, env, h, rs485>>

\* the variables of the handler object and its task
handlerVars == <<serial, taskHandle, commandQueue, mutex, queueItems, mutexOwner,
                 isRunning, lastCommandId, deviceState, stats, rxBuffer,
                 lastRxTime, pendingCommand, waitingForResponse, responseTimeout,
                 task, beginPc, callers, fault>>

\* VeBusCommandItem::VeBusCommandItem() (timestamp is written and never read:
\* it is left out)
\* uid is not a member of the struct: it numbers the submissions, so that a
\* command can be followed through the queue
NewItem ==
    [frame |-> NewFrame, retryCount |-> 0, waitForResponse |-> FALSE, uid |-> 0]

\* VeBusStatistics (lastResetTime is written and never read: left out)
ZeroStats ==
    [framesSent |-> 0, framesReceived |-> 0, framesDropped |-> 0,
     checksumErrors |-> 0, timeoutErrors |-> 0, retransmissions |-> 0]

\* VeBusDeviceState::VeBusDeviceState() of the statically allocated handler;
\* dcInfo, acInfo and ledStatus hold the payload bytes last decoded into them
NewDeviceState ==
    [dcInfo |-> <<>>, acInfo |-> <<>>, ledStatus |-> <<>>, lastUpdateTime |-> Time32(0),
     isOnline |-> FALSE, switchState |-> 0]

\* the task before it is created; lastStatusRequest and frameNumber are the
\* function statics of communicationTask
NewTask ==
    [pc |-> "none", commandItem |-> NewItem, receivedFrame |-> NewFrame,
     lastStatusRequest |-> Time32(0), frameNumber |-> 0, rxByte |-> 0]

\* a caller thread outside the handler: op is the facade operation it is in,
\* snap the local VeBusDeviceState of getDeviceState, item.frame the local
\* response frame of a request
IdleCaller ==
    [pc |-> "idle", item |-> NewItem, since |-> Time32(0), ret |-> "none",
     op |-> "none", snap |-> NewDeviceState]

\* the codec harness when it is not in use
NoHarness ==
    [phase |-> "off", byte |-> 0, region |-> <<>>, out |-> <<>>,
     frame |-> NewFrame, oob |-> <<"layout">>, bytes |-> <<>>, rx |-> <<>>,
     rxFrame |-> NewFrame, decoded |-> <<>>, errors |-> 0,
     flipped |-> NewFrame, verdict |-> FALSE]

\* The history of one pass of the loop body (a tick), kept in the scenarios
\* that switch it on: inbound, the bytes that were available when the pass
\* began; read, the bytes receiveFrame has read in it; late, whether the
\* deadline of the awaiting command had passed when it began
NoTick == [on |-> FALSE, inbound |-> <<>>, read |-> 0, late |-> FALSE]

\* The environment's counters, and the history of the submitted commands:
\* accepted, the uids put into the queue by a submission, and order, the same
\* in the order in which they were put; tries, the number
\* of sendFrame calls made for each; sentOk, those for which one returned true;
\* facade, the calls of the facade; resets, the calls of resetStatistics;
\* seen, the contents deviceState had since the getDeviceState call in
\* progress began; tick, the history of the current pass of the loop
NewEnv ==
    [calls |-> 0, inbound |-> 0, begins |-> 0, writeFails |-> 0,
     accepted |-> {}, tries |-> [u \in 1..MaxBurst |-> 0], sentOk |-> {},
     facade |-> 0, resets |-> 0, seen |-> {}, tick |-> NoTick, order |-> <<>>]

\* DE (driver enable) and SE (send enable) low: the transceiver receives.
\* sending holds the threads between the digitalWrite(HIGH) and the
\* digitalWrite(LOW) of sendFrame, written counts the bytes written there
ReceiveMode == [de |-> "LOW", se |-> "LOW", sending |-> {}, written |-> 0]

\* VeBusHandler::VeBusHandler()
InitHandler ==
    /\ serial = "null" /\ taskHandle = "null" /\ commandQueue = "null"
    /\ mutex = "null" /\ queueItems = <<>> /\ mutexOwner = "none"
    /\ isRunning = FALSE /\ lastCommandId = 0
    /\ deviceState = NewDeviceState /\ stats = ZeroStats
    /\ rxBuffer = <<>> /\ lastRxTime = Time32(0)
    /\ pendingCommand = NewItem /\ waitingForResponse = FALSE
    /\ responseTimeout = Time32(0)
    /\ task = NewTask /\ beginPc = "idle"
    /\ callers = [c \in Callers |-> IdleCaller]
    /\ fault = "none"

Init ==
    /\ InitHandler
    /\ serialIn = <<>> /\ lastSent = NewFrame /\ now = Time32(0)
    /\ env = NewEnv
    /\ h = NoHarness
    /\ rs485 = ReceiveMode

(***************************************************************************)
(* begin() and end()                                                       *)
(***************************************************************************)
\* what a use of a null FreeRTOS handle can do: configASSERT aborts, or the
\* null pointer is dereferenced
NullHandleOutcomes == {"assert_abort", "load_prohibited"}
\* what a use of a deleted FreeRTOS object can do
FreedHandleOutcomes == {"load_prohibited", "heap_corrupted"}

HandleOutcomes(handle) ==
    IF handle = "null" THEN NullHandleOutcomes ELSE FreedHandleOutcomes

TaskAlive == task.pc \notin {"none", "exited", "deleted"}

\* the allocations of begin(): all succeed, or xSemaphoreCreateMutex,
\* xQueueCreate or xTaskCreatePinnedToCore fails
BeginOutcomes == {"ok", "nomutex", "noqueue", "notask"}

\* begin() up to the return of xTaskCreatePinnedToCore; outcome tells which
\* allocation fails; the environment calls begin() at most maxBegins times
BeginAttempt(outcome, maxBegins) ==
    /\ fault = "none" /\ beginPc = "idle" /\ ~isRunning /\ ~TaskAlive
    /\ env.begins < maxBegins
    /\ env' = [env EXCEPT !.begins = @ + 1]
    /\ serial' = "open"
    /\ mutex' = IF outcome = "nomutex" THEN "null"
                ELSE IF outcome = "ok" THEN "live" ELSE "freed"
    /\ commandQueue' = IF outcome = "nomutex" THEN commandQueue
                       ELSE IF outcome = "noqueue" THEN "null"
                       ELSE IF outcome = "notask" THEN "freed" ELSE "live"
    /\ queueItems' = IF outcome = "nomutex" THEN queueItems ELSE <<>>
    /\ mutexOwner' = "none"
    /\ taskHandle' = IF outcome = "ok" THEN "live" ELSE taskHandle
    /\ task' = IF outcome = "ok" THEN [task EXCEPT !.pc = "start"] ELSE task
    /\ beginPc' = IF outcome = "ok" THEN "created" ELSE "idle"
    /\ rs485' = [rs485 EXCEPT !.de = "LOW", !.se = "LOW"]
    /\ UNCHANGED <<isRunning, lastCommandId, deviceState, stats, rxBuffer,
                   lastRxTime, pendingCommand, waitingForResponse,
                   responseTimeout, callers, serialIn, lastSent, now, fault, h>>

BeginCreate(outcome) == BeginAttempt(outcome, MaxBegins)

\* begin() after the task was created: isRunning = true; stats.reset();
\* resetRxBuffer(); return true
BeginFinish ==
    /\ fault = "none" /\ beginPc = "created"
    /\ isRunning' = TRUE
    /\ stats' = ZeroStats
    /\ rxBuffer' = <<>>
    /\ beginPc' = "idle"
    /\ UNCHANGED <<serial, taskHandle, commandQueue, mutex, queueItems,
                   mutexOwner, lastCommandId, deviceState, lastRxTime,
                   pendingCommand, waitingForResponse, responseTimeout, task,
                   callers, serialIn, lastSent, now, fault, env, h, rs485>>

\* end(): the handles it passes to vTaskDelete, vQueueDelete and
\* vSemaphoreDelete that no longer name a live object
EndStaleHandles ==
    (IF taskHandle = "freed" \/ (taskHandle = "live" /\ task.pc = "exited")
     THEN {"freed"} ELSE {})
    \cup (IF commandQueue = "freed" THEN {"freed"} ELSE {})
    \cup (IF mutex = "freed" THEN {"freed"} ELSE {})

\* VeBusHandler::end()
End ==
    /\ fault = "none" /\ beginPc = "idle"
    /\ serial # "null" \/ isRunning
    /\ IF EndStaleHandles # {}
       THEN /\ fault' \in FreedHandleOutcomes
            /\ UNCHANGED <<serial, taskHandle, commandQueue, mutex, queueItems,
                           mutexOwner, isRunning, task>>
       ELSE /\ isRunning' = FALSE
            /\ taskHandle' = "null"
            /\ task' = IF taskHandle = "live" THEN [task EXCEPT !.pc = "deleted"]
                       ELSE task
            /\ commandQueue' = "null"
            /\ queueItems' = <<>>
            /\ mutex' = "null"
            /\ mutexOwner' = "none"
            /\ serial' = "null"
            /\ fault' = fault
    /\ UNCHANGED <<lastCommandId, deviceState, stats, rxBuffer, lastRxTime,
                   pendingCommand, waitingForResponse, responseTimeout, beginPc,
                   callers, serialIn, lastSent, now, env, h, rs485>>

(***************************************************************************)
(* Command interface                                                       *)
(***************************************************************************)
\* int16_t as its two bytes
LowByte(v) == (v % 65536) % 256
HighByte(v) == (v % 65536) \div 256

WithChecksumMk2(f) == [f EXCEPT !.checksum = calculateChecksumMk2(f)]

\* VeBusEssPowerCommand::toFrame
EssPowerFrame(targetPower, commandId) ==
    WithChecksumMk2([NewFrame EXCEPT !.command = VEBUS_CMD_SET_ESS_POWER,
                                     !.length = 3,
                                     !.data = <<LowByte(targetPower),
                                                HighByte(targetPower), commandId>>])

\* VeBusCurrentLimitCommand::toFrame
CurrentLimitFrame(currentLimit, commandId) ==
    WithChecksumMk2([NewFrame EXCEPT !.command = VEBUS_CMD_SET_INPUT_CURRENT,
                                     !.length = 2,
                                     !.data = <<currentLimit, commandId>>])

\* VeBusSwitchCommand::toFrame
SwitchFrame(switchState, commandId) ==
    WithChecksumMk2([NewFrame EXCEPT !.command = VEBUS_CMD_SET_SWITCH,
                                     !.length = 2,
                                     !.data = <<switchState, commandId>>])

\* an Extended frame handed to sendCustomCommand
CustomMk3Frame ==
    [NewFrame EXCEPT !.isMk3Frame = TRUE, !.command = 48, !.length = 1,
                     !.data = <<4>>]

\* the calls of the command interface the callers make
SubmitInputs ==
    { [op |-> "sendEssPowerCommand", arg |-> -300],
      [op |-> "sendCustomCommand", arg |-> FALSE] }

\* the calls made in the scenario that fills the queue
BurstInputs == { [op |-> "sendCustomCommand", arg |-> FALSE] }

\* the item a submission builds; id is the value of ++lastCommandId
SubmitItem(in, id) ==
    IF in.op = "sendEssPowerCommand"
    THEN [NewItem EXCEPT !.frame = EssPowerFrame(in.arg, id),
                         !.waitForResponse = TRUE]
    ELSE IF in.op = "sendCurrentLimitCommand"
    THEN [NewItem EXCEPT !.frame = CurrentLimitFrame(in.arg, id),
                         !.waitForResponse = TRUE]
    ELSE IF in.op = "sendSwitchCommand"
    THEN [NewItem EXCEPT !.frame = SwitchFrame(in.arg, id),
                         !.waitForResponse = TRUE]
    ELSE [NewItem EXCEPT !.frame = CustomMk3Frame, !.waitForResponse = in.arg]

QueueFull == Len(queueItems) >= VEBUS_QUEUE_SIZE

xQueueSendToBack_Front(items, item) == <<item>> \o items

\* xQueueSendToBack on a queue with room
xQueueSendToBack(items, item) == Append(items, item)

\* sendEssPowerCommand, sendCurrentLimitCommand, sendSwitchCommand,
\* sendCustomCommand up to the point where xQueueSendToBack returns or
\* suspends the caller (it waits up to 100 ms for room)
Submit(c, in, maxCalls) ==
    /\ fault = "none" /\ callers[c].pc = "idle"
    /\ env.calls < maxCalls
    /\ LET id == IF in.op = "sendCustomCommand" THEN lastCommandId
                 ELSE U8(lastCommandId + 1)
           item == [SubmitItem(in, id) EXCEPT !.uid = env.calls + 1]
       IN  /\ lastCommandId' = id
           /\ IF commandQueue # "live"
              THEN /\ fault' \in HandleOutcomes(commandQueue)
                   /\ env' = [env EXCEPT !.calls = @ + 1]
                   /\ UNCHANGED <<queueItems, callers>>
              ELSE IF ~QueueFull
              THEN /\ queueItems' = xQueueSendToBack(queueItems, item)
                   /\ callers' = [callers EXCEPT ![c].ret = "true"]
                   /\ env' = [env EXCEPT !.calls = @ + 1,
                                         !.accepted = @ \cup {item.uid},
                                         !.order = Append(@, item.uid)]
                   /\ fault' = fault
              ELSE /\ callers' = [callers EXCEPT ![c] =
                          [IdleCaller EXCEPT !.pc = "blocked", !.item = item,
                                             !.since = now]]
                   /\ env' = [env EXCEPT !.calls = @ + 1]
                   /\ UNCHANGED <<queueItems, fault>>
    /\ UNCHANGED <<serial, taskHandle, commandQueue, mutex, mutexOwner,
                   isRunning, deviceState, stats, rxBuffer, lastRxTime,
                   pendingCommand, waitingForResponse, responseTimeout, task,
                   beginPc, serialIn, lastSent, now, h, rs485>>

\* the ticks xQueueSendToBack waits for room: pdMS_TO_TICKS(100)
SUBMIT_WAIT_MS == 100

\* a caller suspended in xQueueSendToBack: room appears and the item is
\* queued, or the wait expires and the call returns false
SubmitResume(c) ==
    /\ fault = "none" /\ callers[c].pc = "blocked"
    /\ IF commandQueue # "live"
       THEN /\ fault' \in FreedHandleOutcomes
            /\ UNCHANGED <<queueItems, callers, env>>
       ELSE /\ fault' = fault
            /\ \/ /\ ~QueueFull
                  /\ queueItems' = xQueueSendToBack(queueItems, callers[c].item)
                  /\ callers' = [callers EXCEPT ![c] =
                                     [IdleCaller EXCEPT !.ret = "true"]]
                  /\ env' = [env EXCEPT
                               !.accepted = @ \cup {callers[c].item.uid},
                               !.order = Append(@, callers[c].item.uid)]
               \/ /\ QueueFull
                  /\ ~Gt32(Time32(SUBMIT_WAIT_MS), Sub32(now, callers[c].since))
                  /\ callers' = [callers EXCEPT ![c] =
                                     [IdleCaller EXCEPT !.ret = "false"]]
                  /\ UNCHANGED <<queueItems, env>>
    /\ UNCHANGED <<serial, taskHandle, commandQueue, mutex, mutexOwner,
                   isRunning, lastCommandId, deviceState, stats, rxBuffer,
                   lastRxTime, pendingCommand, waitingForResponse,
                   responseTimeout, task, beginPc, serialIn, lastSent, now, h,
                   rs485>>

(***************************************************************************)
(* communicationTask                                                       *)
(***************************************************************************)
Bump(st, counter) == [st EXCEPT ![counter] = @ + 1]

\* the end of the write section of sendFrame in thread t: serial->flush(),
\* digitalWrite(VEBUS_DE_PIN, LOW), digitalWrite(VEBUS_SE_PIN, LOW)
SendReturns(r, t) ==
    [r EXCEPT !.de = "LOW", !.se = "LOW", !.sending = @ \ {t}]

\* the history when a pass of the loop body begins, and when receiveFrame
\* reads a byte
TickBegin(e) ==
    IF e.tick.on
    THEN [e EXCEPT !.tick.inbound = serialIn, !.tick.read = 0,
                   !.tick.late = waitingForResponse /\ Gt32(now, responseTimeout)]
    ELSE e
TickRead(e) == IF e.tick.on THEN [e EXCEPT !.tick.read = @ + 1] ELSE e

\* a caller is inside getDeviceState
Reading == \E c \in Callers : callers[c].pc \in {"getwait", "copy1", "copy2"}

\* the history of deviceState after a step that leaves it holding ds
Observed(ds) == IF Reading THEN [env EXCEPT !.seen = @ \cup {ds}] ELSE env

retryAllowed_Never(item) == FALSE

\* if (commandItem.retryCount < VEBUS_MAX_RETRY_COUNT), the test of the
\* send-failure path and of handleTimeout
retryAllowed(item) == item.retryCount < VEBUS_MAX_RETRY_COUNT

\* the return values serial->write(buf, n) == n and the byte-wise writes of
\* sendFrame can have: the MK2 branch returns true whatever was written
SendResults(frame) == IF frame.isMk3Frame THEN {TRUE, FALSE} ELSE {TRUE}

\* the results the environment still produces: it lets at most maxFails
\* writes fail
WriteResults(frame, maxFails) ==
    {r \in SendResults(frame) : ~r => env.writeFails < maxFails}

\* the first evaluation of while (isRunning) by the created task
TaskStart ==
    /\ fault = "none" /\ task.pc = "start"
    /\ task' = [task EXCEPT !.pc = IF isRunning THEN "rx" ELSE "exited"]
    /\ env' = TickBegin(env)
    /\ UNCHANGED <<serial, taskHandle, commandQueue, mutex, queueItems,
                   mutexOwner, isRunning, lastCommandId, deviceState, stats,
                   rxBuffer, lastRxTime, pendingCommand, waitingForResponse,
                   responseTimeout, beginPc, callers, serialIn, lastSent, now,
                   fault, h, rs485>>

\* receiveFrame: one pass of while (serial->available())
TaskRxByte ==
    /\ fault = "none" /\ task.pc = "rx" /\ serialIn # <<>>
    /\ \E oob \in OobChoices :
         LET r == receiveByte(task.receivedFrame, rxBuffer, Head(serialIn), oob)
         IN  /\ rxBuffer' = r.buf
             /\ task' = [task EXCEPT !.receivedFrame = r.frame,
                                     !.pc = IF r.kind = "valid" THEN "dispatch"
                                            ELSE "rx"]
             /\ stats' = IF r.kind = "overflow" THEN Bump(stats, "framesDropped")
                         ELSE IF r.kind = "invalid"
                              THEN Bump(stats, "checksumErrors")
                         ELSE stats
    /\ serialIn' = Tail(serialIn)
    /\ lastRxTime' = now
    /\ env' = TickRead(env)
    /\ UNCHANGED <<serial, taskHandle, commandQueue, mutex, queueItems,
                   mutexOwner, isRunning, lastCommandId, deviceState,
                   pendingCommand, waitingForResponse, responseTimeout, beginPc,
                   callers, lastSent, now, fault, h, rs485>>

\* what the store rxBuffer[128] = byte can do: rxBufferPos, the member
\* declared after the array, is overwritten, or other memory is
OutOfBoundsStoreOutcomes == {"rxBufferPos_overwritten", "memory_corrupted"}

\* receiveFrame, one pass of while (serial->available()) up to the test
\* "if (rxBufferPos < VEBUS_FRAME_SIZE)" found true: the byte is read and not
\* yet stored
TaskRxCheck ==
    /\ fault = "none" /\ task.pc = "rx" /\ serialIn # <<>>
    /\ rxBuffer # <<>> /\ Len(rxBuffer) < VEBUS_FRAME_SIZE
    /\ task' = [task EXCEPT !.pc = "store", !.rxByte = Head(serialIn)]
    /\ serialIn' = Tail(serialIn)
    /\ lastRxTime' = now
    /\ env' = TickRead(env)
    /\ UNCHANGED <<serial, taskHandle, commandQueue, mutex, queueItems,
                   mutexOwner, isRunning, lastCommandId, deviceState, stats,
                   rxBuffer, pendingCommand, waitingForResponse,
                   responseTimeout, beginPc, callers, lastSent, now, fault, h,
                   rs485>>

\* the rest of that pass: rxBuffer[rxBufferPos++] = byte with the value
\* rxBufferPos has by now, and the check for a complete frame
TaskRxStore ==
    /\ fault = "none" /\ task.pc = "store"
    /\ IF Len(rxBuffer) >= VEBUS_FRAME_SIZE
       THEN /\ rxBuffer' = Append(rxBuffer, task.rxByte)
            /\ fault' \in OutOfBoundsStoreOutcomes
            /\ UNCHANGED <<task, stats>>
       ELSE \E oob \in OobChoices :
            LET r == storeByte(task.receivedFrame, rxBuffer, task.rxByte, oob)
            IN  /\ rxBuffer' = r.buf
                /\ task' = [task EXCEPT !.receivedFrame = r.frame,
                                        !.pc = IF r.kind = "valid" THEN "dispatch"
                                               ELSE "rx"]
                /\ stats' = IF r.kind = "invalid"
                            THEN Bump(stats, "checksumErrors") ELSE stats
                /\ fault' = fault
    /\ UNCHANGED <<serial, taskHandle, commandQueue, mutex, queueItems,
                   mutexOwner, isRunning, lastCommandId, deviceState,
                   lastRxTime, pendingCommand, waitingForResponse,
                   responseTimeout, beginPc, callers, serialIn, lastSent, now,
                   env, h, rs485>>

\* the age after which receiveFrame discards a partial frame
RX_PARTIAL_TIMEOUT_MS == 100

\* receiveFrame when no byte is available: the check for an incomplete frame
\* and return false
TaskRxNone ==
    /\ fault = "none" /\ task.pc = "rx" /\ serialIn = <<>>
    /\ IF Len(rxBuffer) > 0 /\ Gt32(Sub32(now, lastRxTime), Time32(RX_PARTIAL_TIMEOUT_MS))
       THEN /\ rxBuffer' = <<>>
            /\ stats' = Bump(stats, "framesDropped")
       ELSE UNCHANGED <<rxBuffer, stats>>
    /\ task' = [task EXCEPT !.pc = "deq"]
    /\ UNCHANGED <<serial, taskHandle, commandQueue, mutex, queueItems,
                   mutexOwner, isRunning, lastCommandId, deviceState,
                   lastRxTime, pendingCommand, waitingForResponse,
                   responseTimeout, beginPc, callers, serialIn, lastSent, now,
                   fault, env, h, rs485>>

\* VeBusDcInfo::fromFrame, VeBusAcInfo::fromFrame, VeBusLedStatus::fromFrame:
\* the payload bytes they decode, or the old value when the frame is too short
fromFrame(old, frame, command, minLength, used) ==
    IF frame.command = command /\ frame.length >= minLength
    THEN Prefix(frame.data, used) ELSE old

\* the body of processReceivedFrame under the mutex
dispatch(ds, frame) ==
    LET stamped == [ds EXCEPT !.lastUpdateTime = now, !.isOnline = TRUE]
    IN  IF frame.command = 2
        THEN [stamped EXCEPT !.dcInfo = fromFrame(@, frame, 2, 8, 8)]
        ELSE IF frame.command = 3
        THEN [stamped EXCEPT !.acInfo = fromFrame(@, frame, 3, 12, 10)]
        ELSE IF frame.command = 4
        THEN [stamped EXCEPT !.ledStatus = fromFrame(@, frame, 4, 6, 5)]
        ELSE stamped

\* does processReceivedFrame clear the await on this frame
acknowledges(frame) ==
    /\ frame.command = VEBUS_CMD_SET_ESS_POWER
    /\ waitingForResponse
    /\ pendingCommand.frame.command = VEBUS_CMD_SET_ESS_POWER

\* processReceivedFrame(receivedFrame); stats.framesReceived++
TaskDispatch ==
    /\ fault = "none" /\ task.pc = "dispatch"
    /\ mutexOwner = "none"
    /\ deviceState' = dispatch(deviceState, task.receivedFrame)
    /\ waitingForResponse' = IF acknowledges(task.receivedFrame) THEN FALSE
                             ELSE waitingForResponse
    /\ stats' = Bump(stats, "framesReceived")
    /\ task' = [task EXCEPT !.pc = "deq"]
    /\ env' = Observed(deviceState')
    /\ UNCHANGED <<serial, taskHandle, commandQueue, mutex, queueItems,
                   mutexOwner, isRunning, lastCommandId, rxBuffer, lastRxTime,
                   pendingCommand, responseTimeout, beginPc, callers, serialIn,
                   lastSent, now, fault, h, rs485>>

\* xQueueReceive(commandQueue, &commandItem, 0) and, when it gave an item,
\* sendFrame(commandItem.frame) with the bookkeeping of its outcome
TaskDequeue(maxFails) ==
    /\ fault = "none" /\ task.pc = "deq"
    /\ IF queueItems = <<>>
       THEN /\ task' = [task EXCEPT !.pc = "timeout"]
            /\ UNCHANGED <<queueItems, stats, pendingCommand, rs485,
                           waitingForResponse, responseTimeout, lastSent, env>>
       ELSE LET item == Head(queueItems) IN
            /\ queueItems' = Tail(queueItems)
            /\ lastSent' = item.frame
            /\ rs485' = SendReturns(rs485, "task")
            /\ \E sent \in WriteResults(item.frame, maxFails) :
                 IF sent
                 THEN /\ env' = [env EXCEPT !.tries[item.uid] = @ + 1,
                                            !.sentOk = @ \cup {item.uid}]
                      /\ stats' = Bump(stats, "framesSent")
                      /\ task' = [task EXCEPT !.commandItem = item,
                                              !.pc = "timeout"]
                      /\ IF item.waitForResponse
                         THEN /\ pendingCommand' = item
                              /\ waitingForResponse' = TRUE
                              /\ responseTimeout' = Add32(now, VEBUS_TIMEOUT_MS)
                         ELSE UNCHANGED <<pendingCommand, waitingForResponse,
                                          responseTimeout>>
                 ELSE /\ env' = [env EXCEPT !.writeFails = @ + 1,
                                            !.tries[item.uid] = @ + 1]
                      /\ stats' = Bump(stats, "framesDropped")
                      /\ task' = IF retryAllowed(item)
                                 THEN [task EXCEPT
                                         !.commandItem =
                                            [item EXCEPT !.retryCount = @ + 1],
                                         !.pc = "requeue"]
                                 ELSE [task EXCEPT !.commandItem = item,
                                                   !.pc = "timeout"]
                      /\ UNCHANGED <<pendingCommand, waitingForResponse,
                                     responseTimeout>>
    /\ UNCHANGED <<serial, taskHandle, commandQueue, mutex, mutexOwner,
                   isRunning, lastCommandId, deviceState, rxBuffer, lastRxTime,
                   beginPc, callers, serialIn, now, fault, h>>

\* the retry of communicationTask: xQueueSendToBack(commandQueue,
\* &commandItem, 0), its result ignored; stats.retransmissions++
TaskRequeue ==
    /\ fault = "none" /\ task.pc = "requeue"
    /\ queueItems' = IF QueueFull THEN queueItems
                     ELSE xQueueSendToBack(queueItems, task.commandItem)
    /\ stats' = Bump(stats, "retransmissions")
    /\ task' = [task EXCEPT !.pc = "timeout"]
    /\ UNCHANGED <<serial, taskHandle, commandQueue, mutex, mutexOwner,
                   isRunning, lastCommandId, deviceState, rxBuffer, lastRxTime,
                   pendingCommand, waitingForResponse, responseTimeout, beginPc,
                   callers, serialIn, lastSent, now, fault, env, h, rs485>>

\* if (waitingForResponse && millis() > responseTimeout) handleTimeout()
TaskTimeout ==
    /\ fault = "none" /\ task.pc = "timeout"
    /\ task' = [task EXCEPT !.pc = "status"]
    /\ IF waitingForResponse /\ Gt32(now, responseTimeout)
       THEN /\ waitingForResponse' = FALSE
            /\ IF retryAllowed(pendingCommand)
               THEN /\ pendingCommand' =
                          [pendingCommand EXCEPT !.retryCount = @ + 1]
                    /\ IF QueueFull
                       THEN /\ stats' = Bump(stats, "timeoutErrors")
                            /\ UNCHANGED queueItems
                       ELSE /\ queueItems' =
                                   xQueueSendToBack(queueItems, pendingCommand')
                            /\ stats' = Bump(Bump(stats, "timeoutErrors"),
                                             "retransmissions")
               ELSE /\ stats' = Bump(stats, "timeoutErrors")
                    /\ UNCHANGED <<pendingCommand, queueItems>>
       ELSE UNCHANGED <<waitingForResponse, pendingCommand, queueItems, stats>>
    /\ UNCHANGED <<serial, taskHandle, commandQueue, mutex, mutexOwner,
                   isRunning, lastCommandId, deviceState, rxBuffer, lastRxTime,
                   responseTimeout, beginPc, callers, serialIn, lastSent, now,
                   fault, env, h, rs485>>

\* the period of the status request of communicationTask
STATUS_REQUEST_PERIOD_MS == 2000

\* the periodic status request built in communicationTask (its checksum field
\* is computed and never read: sendFrameMk3Correct appends its own)
StatusFrame(frameNumber) ==
    [NewFrame EXCEPT !.isMk3Frame = TRUE, !.frameNumber = frameNumber,
                     !.command = 48, !.length = 4, !.data = <<4, 14, 0, 0>>]

\* if (millis() - lastStatusRequest > 2000) { ... sendFrame(statusFrame) ... }
TaskStatus(maxFails) ==
    /\ fault = "none" /\ task.pc = "status"
    /\ IF Gt32(Sub32(now, task.lastStatusRequest),
            Time32(STATUS_REQUEST_PERIOD_MS))
       THEN /\ lastSent' = StatusFrame(task.frameNumber)
            /\ rs485' = SendReturns(rs485, "task")
            /\ \E sent \in WriteResults(StatusFrame(task.frameNumber), maxFails) :
                 IF sent
                 THEN /\ env' = env
                      /\ stats' = Bump(stats, "framesSent")
                      /\ task' = [task EXCEPT !.pc = "stale",
                                              !.frameNumber = U8(@ + 1),
                                              !.lastStatusRequest = now]
                 ELSE /\ env' = [env EXCEPT !.writeFails = @ + 1]
                      /\ stats' = stats
                      /\ task' = [task EXCEPT !.pc = "stale",
                                              !.frameNumber = U8(@ + 1)]
       ELSE /\ task' = [task EXCEPT !.pc = "stale"]
            /\ UNCHANGED <<lastSent, stats, env, rs485>>
    /\ UNCHANGED <<serial, taskHandle, commandQueue, mutex, queueItems,
                   mutexOwner, isRunning, lastCommandId, deviceState, rxBuffer,
                   lastRxTime, pendingCommand, waitingForResponse,
                   responseTimeout, beginPc, callers, serialIn, now, fault, h>>

\* the default timeoutMs of VeBusDeviceState::isStale
STALE_TIMEOUT_MS == 5000

isStale_Never(ds) == FALSE

\* VeBusDeviceState::isStale
isStale(ds) ==
    Gt32(Sub32(now, ds.lastUpdateTime), Time32(STALE_TIMEOUT_MS))

\* the update of the online status, vTaskDelayUntil and the next evaluation
\* of while (isRunning)
TaskStale ==
    /\ fault = "none" /\ task.pc = "stale"
    /\ IF isStale(deviceState)
       THEN /\ mutexOwner = "none"
            /\ deviceState' = [deviceState EXCEPT !.isOnline = FALSE]
       ELSE UNCHANGED deviceState
    /\ task' = [task EXCEPT !.pc = IF isRunning THEN "rx" ELSE "exited"]
    /\ env' = TickBegin(Observed(deviceState'))
    /\ UNCHANGED <<serial, taskHandle, commandQueue, mutex, queueItems,
                   mutexOwner, isRunning, lastCommandId, stats, rxBuffer,
                   lastRxTime, pendingCommand, waitingForResponse,
                   responseTimeout, beginPc, callers, serialIn, lastSent, now,
                   fault, h, rs485>>

(***************************************************************************)
(* The facade: snapshot reads, synchronous requests, direct set commands   *)
(***************************************************************************)
VEBUS_CMD_GET_VERSION == 1
VEBUS_CMD_DEVICE_RESET == 82
VEBUS_CMD_CLEAR_ERRORS == 83
VEBUS_SWITCH_ON == 3

\* the ticks getDeviceState waits for the mutex: pdMS_TO_TICKS(100)
GETSTATE_WAIT_MS == 100

\* what dcInfo, acInfo and ledStatus of the local VeBusDeviceState of
\* getDeviceState can hold before the copy: these structs have no
\* constructor, the stack gives zeroes or something else
UninitInfos == {<<>>, <<165>>}

\* the synchronous requests and the set commands of the facade
\* (requestDeviceStatus, requestErrorInfo, requestWarningInfo and
\* requestLedStatus differ from requestVersionInfo in the command code only;
\* enableAutoRestart, setVoltageRange and setFrequencyRange differ from
\* clearErrors in the frame only)
RequestOps == {"requestVersionInfo"}
SetOps == {"setSwitchState", "resetDevice", "clearErrors"}

\* the frame the operation builds; its checksum field stays 0
FacadeFrame(op) ==
    IF op = "requestVersionInfo"
    THEN [NewFrame EXCEPT !.command = VEBUS_CMD_GET_VERSION, !.length = 1,
                          !.data = <<0>>]
    ELSE IF op = "setSwitchState"
    THEN [NewFrame EXCEPT !.command = VEBUS_CMD_SET_SWITCH, !.length = 2,
                          !.data = <<0, VEBUS_SWITCH_ON>>]
    ELSE IF op = "resetDevice"
    THEN [NewFrame EXCEPT !.command = VEBUS_CMD_DEVICE_RESET, !.length = 2,
                          !.data = <<0, 1>>]
    ELSE [NewFrame EXCEPT !.command = VEBUS_CMD_CLEAR_ERRORS, !.length = 2,
                          !.data = <<0, 1>>]

\* memset(&deviceState, 0, sizeof(deviceState)) of resetDevice
ClearedDeviceState == NewDeviceState

\* what a set command does to deviceState once sendFrame succeeded
AfterSet(ds, op) ==
    IF op = "setSwitchState" THEN [ds EXCEPT !.switchState = VEBUS_SWITCH_ON]
    ELSE IF op = "resetDevice" THEN ClearedDeviceState
    ELSE ds

\* the return of a facade operation
Returned(caller, value) == [caller EXCEPT !.pc = "idle", !.ret = value]

\* getDeviceState up to xSemaphoreTake(mutex, pdMS_TO_TICKS(100)): the mutex
\* is taken, or the caller is suspended
GetStateCall(c, maxFacade) ==
    /\ fault = "none" /\ callers[c].pc = "idle" /\ ~Reading
    /\ env.facade < maxFacade
    /\ IF mutex # "live"
       THEN /\ fault' \in HandleOutcomes(mutex)
            /\ env' = [env EXCEPT !.facade = @ + 1]
            /\ UNCHANGED <<callers, mutexOwner>>
       ELSE /\ fault' = fault
            /\ env' = [env EXCEPT !.facade = @ + 1, !.seen = {deviceState}]
            /\ \E u \in UninitInfos :
                 callers' = [callers EXCEPT ![c] =
                     [IdleCaller EXCEPT
                        !.pc = IF mutexOwner = "none" THEN "copy1" ELSE "getwait",
                        !.op = "getDeviceState", !.since = now,
                        !.snap = [NewDeviceState EXCEPT !.dcInfo = u,
                                                        !.acInfo = u,
                                                        !.ledStatus = u]]]
            /\ mutexOwner' = IF mutexOwner = "none" THEN c ELSE mutexOwner
    /\ UNCHANGED <<serial, taskHandle, commandQueue, mutex, queueItems,
                   isRunning, lastCommandId, deviceState, stats, rxBuffer,
                   lastRxTime, pendingCommand, waitingForResponse,
                   responseTimeout, task, beginPc, serialIn, lastSent, now, h,
                   rs485>>

\* a caller suspended in xSemaphoreTake of getDeviceState: the mutex is given
\* to it, or the 100 ms pass and getDeviceState returns its local state as it
\* was constructed
GetStateWait(c) ==
    /\ fault = "none" /\ callers[c].pc = "getwait"
    /\ IF mutex # "live"
       THEN /\ fault' \in FreedHandleOutcomes
            /\ UNCHANGED <<callers, mutexOwner, env>>
       ELSE /\ fault' = fault
            /\ \/ /\ mutexOwner = "none"
                  /\ mutexOwner' = c
                  /\ callers' = [callers EXCEPT ![c].pc = "copy1"]
                  /\ env' = env
               \/ /\ mutexOwner # "none"
                  /\ ~Gt32(Time32(GETSTATE_WAIT_MS), Sub32(now, callers[c].since))
                  /\ callers' = [callers EXCEPT ![c] = Returned(@, "snapshot")]
                  /\ env' = [env EXCEPT !.seen = {}]
                  /\ UNCHANGED mutexOwner
    /\ UNCHANGED <<serial, taskHandle, commandQueue, mutex, queueItems,
                   isRunning, lastCommandId, deviceState, stats, rxBuffer,
                   lastRxTime, pendingCommand, waitingForResponse,
                   responseTimeout, task, beginPc, serialIn, lastSent, now, h,
                   rs485>>

\* state = deviceState, the members dcInfo, acInfo and ledStatus
GetStateCopy1(c) ==
    /\ fault = "none" /\ callers[c].pc = "copy1"
    /\ callers' = [callers EXCEPT ![c].pc = "copy2",
                                  ![c].snap.dcInfo = deviceState.dcInfo,
                                  ![c].snap.acInfo = deviceState.acInfo,
                                  ![c].snap.ledStatus = deviceState.ledStatus]
    /\ UNCHANGED <<serial, taskHandle, commandQueue, mutex, queueItems,
                   mutexOwner, isRunning, lastCommandId, deviceState, stats,
                   rxBuffer, lastRxTime, pendingCommand, waitingForResponse,
                   responseTimeout, task, beginPc, serialIn, lastSent, now,
                   fault, env, h, rs485>>

\* state = deviceState, the members after them; xSemaphoreGive(mutex);
\* return state
GetStateCopy2(c) ==
    /\ fault = "none" /\ callers[c].pc = "copy2"
    /\ IF mutex # "live"
       THEN /\ fault' \in HandleOutcomes(mutex)
            /\ UNCHANGED <<callers, mutexOwner, env>>
       ELSE /\ fault' = fault
            /\ callers' = [callers EXCEPT ![c] =
                  Returned([@ EXCEPT
                      !.snap.lastUpdateTime = deviceState.lastUpdateTime,
                      !.snap.isOnline = deviceState.isOnline,
                      !.snap.switchState = deviceState.switchState],
                    "snapshot")]
            /\ mutexOwner' = "none"
            /\ env' = [env EXCEPT !.seen = {}]
    /\ UNCHANGED <<serial, taskHandle, commandQueue, mutex, queueItems,
                   isRunning, lastCommandId, deviceState, stats, rxBuffer,
                   lastRxTime, pendingCommand, waitingForResponse,
                   responseTimeout, task, beginPc, serialIn, lastSent, now, h,
                   rs485>>

\* resetStatistics()
ResetStatistics(c, maxFacade) ==
    /\ fault = "none" /\ callers[c].pc = "idle"
    /\ env.facade < maxFacade
    /\ env' = [env EXCEPT !.facade = @ + 1, !.resets = @ + 1]
    /\ stats' = ZeroStats
    /\ UNCHANGED <<serial, taskHandle, commandQueue, mutex, queueItems,
                   mutexOwner, isRunning, lastCommandId, deviceState, rxBuffer,
                   lastRxTime, pendingCommand, waitingForResponse,
                   responseTimeout, task, beginPc, callers, serialIn, lastSent,
                   now, fault, h, rs485>>

\* a request or a set command up to xSemaphoreTake(mutex, portMAX_DELAY):
\* if (!isInitialized()) return false
FacadeCall(c, op, maxFacade) ==
    /\ fault = "none" /\ callers[c].pc = "idle"
    /\ env.facade < maxFacade
    /\ env' = [env EXCEPT !.facade = @ + 1]
    /\ callers' = [callers EXCEPT ![c] =
          IF serial = "null"
          THEN [IdleCaller EXCEPT !.op = op, !.ret = "false"]
          ELSE [IdleCaller EXCEPT !.op = op, !.pc = "lock"]]
    /\ UNCHANGED <<serial, taskHandle, commandQueue, mutex, queueItems,
                   mutexOwner, isRunning, lastCommandId, deviceState, stats,
                   rxBuffer, lastRxTime, pendingCommand, waitingForResponse,
                   responseTimeout, task, beginPc, serialIn, lastSent, now,
                   fault, h, rs485>>

\* xSemaphoreTake(mutex, portMAX_DELAY) of a request or a set command
FacadeLock(c) ==
    /\ fault = "none" /\ callers[c].pc = "lock"
    /\ IF mutex # "live"
       THEN /\ fault' \in HandleOutcomes(mutex)
            /\ UNCHANGED <<callers, mutexOwner>>
       ELSE /\ mutexOwner = "none"
            /\ mutexOwner' = c
            /\ callers' = [callers EXCEPT ![c].pc = "send"]
            /\ fault' = fault
    /\ UNCHANGED <<serial, taskHandle, commandQueue, mutex, queueItems,
                   isRunning, lastCommandId, deviceState, stats, rxBuffer,
                   lastRxTime, pendingCommand, waitingForResponse,
                   responseTimeout, task, beginPc, serialIn, lastSent, now,
                   env, h, rs485>>

\* bool success = sendFrame(frame) in the caller's thread: a request starts
\* to poll with the mutex held, a set command gives the mutex
FacadeSend(c) ==
    /\ fault = "none" /\ callers[c].pc = "send"
    /\ LET op == callers[c].op
           success == serial # "null"
       IN  /\ lastSent' = IF success THEN FacadeFrame(op) ELSE lastSent
           /\ rs485' = IF success THEN SendReturns(rs485, c) ELSE rs485
           /\ IF op \in RequestOps /\ success
              THEN /\ callers' = [callers EXCEPT ![c].pc = "poll",
                                                ![c].since = now]
                   /\ UNCHANGED <<mutexOwner, fault>>
              ELSE IF mutex # "live"
              THEN /\ fault' \in HandleOutcomes(mutex)
                   /\ UNCHANGED <<callers, mutexOwner>>
              ELSE /\ mutexOwner' = "none"
                   /\ fault' = fault
                   /\ callers' = [callers EXCEPT ![c] =
                         IF success THEN [@ EXCEPT !.pc = "sent"]
                         ELSE Returned(@, "false")]
    /\ UNCHANGED <<serial, taskHandle, commandQueue, mutex, queueItems,
                   isRunning, lastCommandId, deviceState, stats, rxBuffer,
                   lastRxTime, pendingCommand, waitingForResponse,
                   responseTimeout, task, beginPc, serialIn, now, env, h>>

\* if (success) of a set command, after the mutex was given:
\* stats.framesSent++, the update of deviceState by setSwitchState and
\* resetDevice; return success
FacadeSent(c) ==
    /\ fault = "none" /\ callers[c].pc = "sent"
    /\ stats' = Bump(stats, "framesSent")
    /\ deviceState' = AfterSet(deviceState, callers[c].op)
    /\ env' = Observed(deviceState')
    /\ callers' = [callers EXCEPT ![c] = Returned(@, "true")]
    /\ UNCHANGED <<serial, taskHandle, commandQueue, mutex, queueItems,
                   mutexOwner, isRunning, lastCommandId, rxBuffer, lastRxTime,
                   pendingCommand, waitingForResponse, responseTimeout, task,
                   beginPc, serialIn, lastSent, now, fault, h, rs485>>

\* while ((xTaskGetTickCount() - startTime) < pdMS_TO_TICKS(responseTimeout))
\* of a request: the member responseTimeout, the deadline of the last
\* response-awaiting command, is the length of the wait (1 tick is 1 ms)
FacadePoll(c) ==
    /\ fault = "none" /\ callers[c].pc = "poll"
    /\ IF Gt32(responseTimeout, Sub32(now, callers[c].since))
       THEN /\ callers' = [callers EXCEPT ![c].pc = "frx"]
            /\ UNCHANGED <<mutexOwner, fault>>
       ELSE IF mutex # "live"
       THEN /\ fault' \in HandleOutcomes(mutex)
            /\ UNCHANGED <<callers, mutexOwner>>
       ELSE /\ mutexOwner' = "none"
            /\ fault' = fault
            /\ callers' = [callers EXCEPT ![c] = Returned(@, "false")]
    /\ UNCHANGED <<serial, taskHandle, commandQueue, mutex, queueItems,
                   isRunning, lastCommandId, deviceState, stats, rxBuffer,
                   lastRxTime, pendingCommand, waitingForResponse,
                   responseTimeout, task, beginPc, serialIn, lastSent, now,
                   env, h, rs485>>

\* receiveFrame(response) called by a request: one pass of
\* while (serial->available()); a frame of the requested kind ends the
\* request, another frame is dropped
FacadeRxByte(c) ==
    /\ fault = "none" /\ callers[c].pc = "frx" /\ serialIn # <<>>
    /\ \E oob \in OobChoices :
         LET r == receiveByte(callers[c].item.frame, rxBuffer, Head(serialIn), oob)
             matches == r.frame.command = FacadeFrame(callers[c].op).command
         IN  /\ rxBuffer' = r.buf
             /\ stats' = IF r.kind = "overflow" THEN Bump(stats, "framesDropped")
                         ELSE IF r.kind = "invalid"
                              THEN Bump(stats, "checksumErrors")
                         ELSE stats
             /\ IF r.kind = "valid" /\ matches /\ mutex # "live"
                THEN /\ fault' \in HandleOutcomes(mutex)
                     /\ UNCHANGED <<callers, mutexOwner>>
                ELSE /\ fault' = fault
                     /\ callers' = [callers EXCEPT ![c] =
                           IF r.kind = "valid" /\ matches
                           THEN Returned([@ EXCEPT !.item.frame = r.frame], "true")
                           ELSE [@ EXCEPT !.item.frame = r.frame,
                                          !.pc = IF r.kind = "valid" THEN "poll"
                                                 ELSE "frx"]]
                     /\ mutexOwner' = IF r.kind = "valid" /\ matches THEN "none"
                                      ELSE mutexOwner
    /\ serialIn' = Tail(serialIn)
    /\ lastRxTime' = now
    /\ UNCHANGED <<serial, taskHandle, commandQueue, mutex, queueItems,
                   isRunning, lastCommandId, deviceState, pendingCommand,
                   waitingForResponse, responseTimeout, task, beginPc, lastSent,
                   now, env, h, rs485>>

\* receiveFrame(response) called by a request when no byte is available,
\* then vTaskDelay(pdMS_TO_TICKS(10))
FacadeRxNone(c) ==
    /\ fault = "none" /\ callers[c].pc = "frx" /\ serialIn = <<>>
    /\ IF Len(rxBuffer) > 0 /\ Gt32(Sub32(now, lastRxTime), Time32(RX_PARTIAL_TIMEOUT_MS))
       THEN /\ rxBuffer' = <<>>
            /\ stats' = Bump(stats, "framesDropped")
       ELSE UNCHANGED <<rxBuffer, stats>>
    /\ callers' = [callers EXCEPT ![c].pc = "poll"]
    /\ UNCHANGED <<serial, taskHandle, commandQueue, mutex, queueItems,
                   mutexOwner, isRunning, lastCommandId, deviceState,
                   lastRxTime, pendingCommand, waitingForResponse,
                   responseTimeout, task, beginPc, serialIn, lastSent, now,
                   fault, env, h, rs485>>

\* thread t has called sendFrame and not yet returned from it: the loop with
\* a dequeued command or a due status request, a facade caller with the
\* mutex
AtSendFrame(t) ==
    IF t = "task"
    THEN \/ task.pc = "deq" /\ queueItems # <<>>
         \/ /\ task.pc = "status"
            /\ Gt32(Sub32(now, task.lastStatusRequest),
                    Time32(STATUS_REQUEST_PERIOD_MS))
    ELSE callers[t].pc = "send" /\ serial # "null"

\* sendFrame in thread t up to delayMicroseconds(50):
\* digitalWrite(VEBUS_DE_PIN, HIGH); digitalWrite(VEBUS_SE_PIN, HIGH)
SendTxOn(t) ==
    /\ fault = "none" /\ AtSendFrame(t) /\ t \notin rs485.sending
    /\ rs485' = [rs485 EXCEPT !.de = "HIGH", !.se = "HIGH",
                              !.sending = @ \cup {t}]
    /\ UNCHANGED <<handlerVars, serialIn, lastSent, now, env, h>>

\* one serial->write of sendFrame in thread t (for an Extended frame, one
\* byte of serial->write(finalBuffer, finalLength))
SendWrite(t, maxBytes) ==
    /\ fault = "none" /\ AtSendFrame(t) /\ t \in rs485.sending
    /\ rs485.written < maxBytes
    /\ rs485' = [rs485 EXCEPT !.written = @ + 1]
    /\ UNCHANGED <<handlerVars, serialIn, lastSent, now, env, h>>

\* isDeviceOnline()
isDeviceOnline == deviceState.isOnline /\ ~isStale(deviceState)

\* getCommunicationQuality() as the fraction num / den; den = 0 stands for
\* the early return of 0.0
getCommunicationQuality ==
    LET totalFrames == stats.framesSent + stats.framesReceived
        errors == stats.checksumErrors + stats.timeoutErrors + stats.framesDropped
    IN  IF totalFrames = 0 THEN [num |-> 0, den |-> 0]
        ELSE [num |-> totalFrames - errors, den |-> totalFrames]

(***************************************************************************)
(* Environment: the device on the bus and the clock                        *)
(***************************************************************************)
\* the Simple frame of the accept scenario: command 0x02, payload AA BB
DcInfoShort ==
    WithChecksumMk2([NewFrame EXCEPT !.command = 2, !.length = 2,
                                     !.data = <<170, 187>>])

\* a Simple frame answering an ESS power command
EssAck == WithChecksumMk2([NewFrame EXCEPT !.command = VEBUS_CMD_SET_ESS_POWER])

\* the byte sequences the device puts on the bus
DeviceMessages ==
    { Mk2WireBytes(DcInfoShort),
      Mk2WireBytes([DcInfoShort EXCEPT !.checksum = U8(@ + 1)]),
      Mk2WireBytes(EssAck),
      Mk3WireBytes(CustomMk3Frame) }

DeviceSend(m, maxInbound) ==
    /\ fault = "none" /\ serial = "open"
    /\ env.inbound < maxInbound
    /\ env' = [env EXCEPT !.inbound = @ + 1]
    /\ serialIn' = serialIn \o m
    /\ UNCHANGED <<handlerVars, lastSent, now, h, rs485>>

\* the amounts by which the clock is seen to advance
TimeSteps == {1001}

Advance(d, maxNow) ==
    /\ fault = "none"
    /\ ~Gt32(Add32(now, d), Time32(maxNow))
    /\ now' = Add32(now, d)
    /\ UNCHANGED <<handlerVars, serialIn, lastSent, env, h, rs485>>

\* Simple frames answering a current limit command and a switch command, and
\* a Simple frame with the command code of the version request
CurrentLimitAck ==
    WithChecksumMk2([NewFrame EXCEPT !.command = VEBUS_CMD_SET_INPUT_CURRENT])
SwitchAck == WithChecksumMk2([NewFrame EXCEPT !.command = VEBUS_CMD_SET_SWITCH])
VersionResponse ==
    WithChecksumMk2([NewFrame EXCEPT !.command = VEBUS_CMD_GET_VERSION])

\* n bytes that are neither a start byte nor the end marker
Filler(n) == [i \in 1..n |-> 1]

\* the declared lengths of the Simple headers the device sends: the empty
\* payload, the accept scenario's, the largest that fits the buffer, the
\* first that does not, and the lengths around the wrap of an 8-bit sum
DeclaredLengths == {0, 2, 123, 124, 250, 251, 255}

\* the bytes FF 00 02 L followed by the L + 1 bytes the header announces
SimpleStream(L) == <<VEBUS_SYNC_BYTE, 0, 2, L>> \o Filler(L + 1)

\* a Simple frame of declared length 121 whose 121st payload byte is 0x55
\* minus the bytes before it, followed by another byte
Declared121 == <<VEBUS_SYNC_BYTE, 0, 2, 121>> \o [i \in 1..120 |-> 0]
                 \o <<U8(85 - VEBUS_SYNC_BYTE - 2 - 121), 7>>

\* a Simple frame of declared length 120 with its checksum
Declared120 ==
    Mk2WireBytes(WithChecksumMk2([NewFrame EXCEPT !.command = 2, !.length = 120,
                                                  !.data = Filler(120)]))

\* the byte streams the device sends to the frame assembler
StreamMessages ==
    {SimpleStream(L) : L \in DeclaredLengths} \cup {Declared121, Declared120}

\* what the device sends in the scenario of the partial frame: the first
\* three bytes of a Simple frame, the first Extended header byte followed by
\* a byte that is not the second, a single byte, and a whole frame
PartialMessages ==
    { <<VEBUS_SYNC_BYTE, 0, 2>>, <<VEBUS_MK3_HEADER1, 1>>, <<7>>,
      Mk2WireBytes(DcInfoShort) }

\* the instants at which millis() is observed in the scenario of the
\* wraparound: 0, 2^31 - 250, 2^32 - 500 (49.7 days after boot) and, after
\* the wraparound, 501
WrapInstants ==
    << Time32(0),
       Add32(Time32(0), HalfWrapMs),
       Add32(Add32(Time32(0), HalfWrapMs), HalfWrapMs),
       Add32(Add32(Add32(Time32(0), HalfWrapMs), HalfWrapMs), 1001) >>

\* millis() moves from one of these instants to the next
WrapAdvance ==
    /\ fault = "none"
    /\ \E i \in 1..(Len(WrapInstants) - 1) :
         now = WrapInstants[i] /\ now' = WrapInstants[i + 1]
    /\ UNCHANGED <<handlerVars, serialIn, lastSent, env, h, rs485>>

(***************************************************************************)
(* Codec harness: the frame functions applied to chosen inputs             *)
(***************************************************************************)
\* the longest payload a frame carries, 1 2 3 0 0 ...
LongPayload == Prefix(<<1, 2, 3>>, VEBUS_MK3_MAX_DATA_SIZE)

SimplePayloads == {<<>>, <<170, 187>>, <<250>>, <<255, 0>>, LongPayload}

\* Simple frames as a caller or the device builds them; the checksum field is
\* the value of calculateChecksumMk2, that value plus one, or 0x55 minus the
\* bytes after the sync byte
SimpleFrames ==
    { [NewFrame EXCEPT !.address = a, !.command = c, !.length = Len(d),
                       !.data = d,
                       !.checksum = U8(85 - k - a - c - Len(d) - SumBytes(d))] :
        a \in {0, 255}, c \in {2, 55, 255}, d \in SimplePayloads,
        k \in {VEBUS_SYNC_BYTE, VEBUS_SYNC_BYTE - 1, 0} }

\* Extended frames: every command code, the first and the last sequence
\* number, an empty payload, the payload of the status request and a one-byte
\* payload that makes command + length + payload sum to 0 mod 256
ExtendedFrames ==
    { [NewFrame EXCEPT !.isMk3Frame = TRUE, !.command = c, !.frameNumber = n,
                       !.length = Len(d), !.data = d] :
        c \in Byte, n \in {0, 255},
        d \in {<<>>, <<4, 14, 0, 0>>} }
    \cup
    { [NewFrame EXCEPT !.isMk3Frame = TRUE, !.command = c, !.frameNumber = 0,
                       !.length = 1, !.data = <<U8(255 - c)>>] : c \in Byte }

TestFrames == SimpleFrames \cup ExtendedFrames

CodecInit ==
    /\ InitHandler
    /\ serialIn = <<>> /\ lastSent = NewFrame /\ now = Time32(0)
    /\ env = NewEnv
    /\ rs485 = ReceiveMode
    /\ \/ \E b \in Byte : h = [NoHarness EXCEPT !.phase = "byte", !.byte = b]
       \/ \E f \in TestFrames, c \in OobChoices :
            h = [NoHarness EXCEPT !.phase = "frame", !.frame = f, !.oob = c]

\* everything but the harness
engineVars == <<handlerVars, serialIn, lastSent, now, env, rs485>>

\* commandReplaceFAtoFF on the one-byte buffer [byte]
HStuff ==
    /\ h.phase = "byte"
    /\ h' = [h EXCEPT !.region = commandReplaceFAtoFF(<<h.byte>>),
                      !.phase = "stuffed"]
    /\ UNCHANGED engineVars

\* the destuffing loop of parseMk3Frame on the stuffed bytes
HDestuff ==
    /\ h.phase = "stuffed"
    /\ h' = [h EXCEPT !.out = DestuffRegion(h.region), !.phase = "destuffed"]
    /\ UNCHANGED engineVars

\* sendFrame(frame): the bytes that reach the lastSent
HSend ==
    /\ h.phase = "frame"
    /\ h' = [h EXCEPT !.bytes = WireBytes(h.frame), !.phase = "feeding"]
    /\ UNCHANGED engineVars

\* receiveFrame reads the next of those bytes
HFeed ==
    /\ h.phase = "feeding"
    /\ LET r == receiveByte(h.rxFrame, h.rx, Head(h.bytes), h.oob)
       IN  h' = [h EXCEPT !.bytes = Tail(@),
                          !.rx = r.buf,
                          !.rxFrame = r.frame,
                          !.decoded = IF r.kind = "valid" THEN Append(@, r.frame)
                                      ELSE @,
                          !.errors = IF r.kind = "invalid" THEN @ + 1 ELSE @,
                          !.phase = IF Tail(h.bytes) = <<>> THEN "fed"
                                    ELSE "feeding"]
    /\ UNCHANGED engineVars

\* frame.isChecksumValid()
HValidate ==
    /\ h.phase = "frame"
    /\ h' = [h EXCEPT !.verdict = isChecksumValid(h.frame, h.oob),
                      !.phase = "validated"]
    /\ UNCHANGED engineVars

\* v with bit k inverted
FlipBit(v, k) == IF (v \div (2 ^ k)) % 2 = 1 THEN v - 2 ^ k ELSE v + 2 ^ k

\* the frames that differ from f in one bit of the address, of the command
\* or of a payload byte
Flips(f) ==
    { [f EXCEPT !.address = FlipBit(@, k)] : k \in 0..7 }
    \cup { [f EXCEPT !.command = FlipBit(@, k)] : k \in 0..7 }
    \cup { [f EXCEPT !.data[i] = FlipBit(@, k)] :
             i \in 1..Min(3, Len(f.data)), k \in 0..7 }

\* one bit of a frame that passed validation is inverted
HFlip ==
    /\ h.phase = "validated" /\ h.verdict
    /\ \E g \in Flips(h.frame) : h' = [h EXCEPT !.flipped = g, !.phase = "flipped"]
    /\ UNCHANGED engineVars

\* isChecksumValid() of the frame with the inverted bit
HRevalidate ==
    /\ h.phase = "flipped"
    /\ h' = [h EXCEPT !.verdict = isChecksumValid(h.flipped, h.oob),
                      !.phase = "flipchecked"]
    /\ UNCHANGED engineVars

CodecNext ==
    \/ HStuff
    \/ HDestuff
    \/ HSend
    \/ HFeed
    \/ HValidate
    \/ HFlip
    \/ HRevalidate

CodecSpec == CodecInit /\ [][CodecNext]_vars

(***************************************************************************)
(* Properties of the frame functions (checked under CodecSpec)             *)
(***************************************************************************)
\* C2: stuffing is invertible: for every byte b, the destuffing of
\* parseMk3Frame applied to commandReplaceFAtoFF([b]) gives [b] back.
C2_StuffingInvertible ==
    h.phase = "destuffed" => h.out = <<h.byte>>

\* the frame sendFrame wrote was received as exactly one valid frame
FedOnce == h.phase = "fed" /\ Len(h.decoded) = 1 /\ h.errors = 0 /\ h.rx = <<>>

\* C3: Extended round trip: the bytes sendFrameMk3Correct writes for a frame,
\* read back by receiveFrame, are accepted as one valid frame with the same
\* command, sequence number and payload.
C3_ExtendedRoundTrip ==
    (h.phase = "fed" /\ h.frame.isMk3Frame) =>
        /\ FedOnce
        /\ h.decoded[1].command = h.frame.command
        /\ h.decoded[1].frameNumber = h.frame.frameNumber
        /\ h.decoded[1].length = h.frame.length
        /\ h.decoded[1].data = h.frame.data

\* C4: Simple round trip: the bytes sendFrame writes for a Simple frame with
\* a payload of 0..120 bytes and the checksum of calculateChecksumMk2, read
\* back by receiveFrame, give exactly one valid frame with the same address,
\* command, length and payload.
C4_SimpleRoundTrip ==
    (h.phase = "fed" /\ ~h.frame.isMk3Frame
       /\ h.frame.length <= VEBUS_MK3_MAX_DATA_SIZE
       /\ h.frame.checksum = calculateChecksumMk2(h.frame)) =>
        /\ FedOnce
        /\ h.decoded[1].address = h.frame.address
        /\ h.decoded[1].command = h.frame.command
        /\ h.decoded[1].length = h.frame.length
        /\ h.decoded[1].data = h.frame.data

\* a Simple frame with the longest payload went through the round trip
C4_Witness ==
    /\ h.phase = "fed" /\ ~h.frame.isMk3Frame
    /\ h.frame.length = VEBUS_MK3_MAX_DATA_SIZE
    /\ h.frame.checksum = calculateChecksumMk2(h.frame)
    /\ Len(h.decoded) = 1
    /\ h.decoded[1].data = LongPayload

\* the frame FF 00 02 02 AA BB c of the accept scenario, c left open
IsAcceptExample(f) ==
    /\ ~f.isMk3Frame /\ f.sync = 255 /\ f.address = 0 /\ f.command = 2
    /\ f.length = 2 /\ f.data = <<170, 187>>

\* C5 as stated: the Simple checksum is 0x55 minus the sum of address,
\* command, length and payload bytes, and the assembler accepts a complete
\* Simple frame exactly when its checksum byte has that value.
C5_ChecksumRuleWithoutSync ==
    (h.phase = "fed" /\ ~h.frame.isMk3Frame) =>
        (FedOnce <=>
           h.frame.checksum = U8(85 - h.frame.address - h.frame.command
                                 - h.frame.length - SumBytes(h.frame.data)))

\* C5, amended: the Simple checksum is 0x55 minus the sum of the sync byte,
\* address, command, length and payload bytes (mod 256); the assembler
\* accepts a complete Simple frame with a payload of 0..120 bytes exactly
\* when its checksum byte has that value, and FF 00 02 02 AA BB c with that
\* c is accepted as one frame with command 0x02 and payload AA BB.
C5_ChecksumRule ==
    (h.phase = "fed" /\ ~h.frame.isMk3Frame
       /\ h.frame.length <= VEBUS_MK3_MAX_DATA_SIZE) =>
        /\ FedOnce <=>
              h.frame.checksum = U8(85 - h.frame.sync - h.frame.address
                                    - h.frame.command - h.frame.length
                                    - SumBytes(h.frame.data))
        /\ ~FedOnce => (h.decoded = <<>> /\ h.errors = 1)
        /\ (/\ IsAcceptExample(h.frame)
            /\ h.frame.checksum = U8(85 - 255 - 0 - 2 - 2 - 170 - 187)) =>
              (FedOnce /\ h.decoded[1].command = 2
                 /\ h.decoded[1].data = <<170, 187>>)

\* the frame of the accept scenario was fed and accepted
C5_Witness ==
    /\ h.phase = "fed" /\ IsAcceptExample(h.frame)
    /\ h.frame.checksum = U8(85 - 255 - 0 - 2 - 2 - 170 - 187)
    /\ Len(h.decoded) = 1 /\ h.decoded[1].command = 2

\* C7: checksum sensitivity: inverting one bit of the address, of the command
\* or of a payload byte of a frame that passed checksum validation makes the
\* validation fail.
C7_ChecksumSensitivity ==
    h.phase = "flipchecked" => ~h.verdict

(***************************************************************************)
(* The engine                                                              *)
(***************************************************************************)
\* the steps of communicationTask that need no inbound byte
\* maxFails bounds the failing writes of queued commands; the writes of the
\* status request succeed
TaskIdleStep(maxFails) ==
    \/ TaskStart
    \/ TaskRxNone
    \/ TaskDequeue(maxFails)
    \/ TaskRequeue
    \/ TaskTimeout
    \/ TaskStatus(0)
    \/ TaskStale

TaskStep(maxFails) ==
    \/ TaskIdleStep(maxFails)
    \/ TaskRxByte
    \/ TaskDispatch

\* Commands, acknowledgements and timeouts: one caller thread submits up to
\* MaxCalls commands, the device answers ESS power commands, the clock runs
\* up to MaxNow, the engine is started once.
RunNext ==
    \/ BeginCreate("ok")
    \/ BeginFinish
    \/ \E in \in SubmitInputs : Submit("c1", in, MaxCalls)
    \/ TaskStep(MaxWriteFails)
    \/ DeviceSend(Mk2WireBytes(EssAck), MaxAcks)
    \/ \E d \in TimeSteps : Advance(d, MaxNow)

\* the same, and the engine may be stopped
Next ==
    \/ RunNext
    \/ End

Spec == Init /\ [][Next]_vars

\* A burst of submissions: one caller thread submits up to MaxBurst commands
\* faster than the loop drains them; the device is silent.
QueueNext ==
    \/ BeginCreate("ok")
    \/ BeginFinish
    \/ \E in \in BurstInputs : Submit("c1", in, MaxBurst)
    \/ SubmitResume("c1")
    \/ TaskIdleStep(MaxBurstFails)
    \/ \E d \in TimeSteps : Advance(d, MaxBurstNow)

QueueSpec == Init /\ [][QueueNext]_vars

\* Reception: the device sends up to MaxInbound messages, nothing is
\* submitted.
RxNext ==
    \/ BeginCreate("ok")
    \/ BeginFinish
    \/ TaskStart
    \/ TaskRxByte
    \/ TaskRxNone
    \/ TaskDispatch
    \/ TaskDequeue(0)
    \/ TaskTimeout
    \/ TaskStatus(0)
    \/ TaskStale
    \/ \E m \in DeviceMessages : DeviceSend(m, MaxInbound)
    \/ \E d \in TimeSteps : Advance(d, MaxRxNow)

RxSpec == Init /\ [][RxNext]_vars

\* the loop runs every 10 ms (vTaskDelayUntil) and the clock advances
FairSpec ==
    /\ Init /\ [][RunNext]_vars
    /\ WF_vars(TaskStep(MaxWriteFails))
    /\ WF_vars(\E d \in TimeSteps : Advance(d, MaxNow))

\* Starts and stops: begin() is called up to MaxLifeBegins times and any of
\* its allocations may fail, end() is called, one thread sends clear-errors
\* commands and another resets the statistics; the device is silent.
LifeNext ==
    \/ \E outcome \in BeginOutcomes : BeginAttempt(outcome, MaxLifeBegins)
    \/ BeginFinish
    \/ End
    \/ TaskStart
    \/ TaskRxNone
    \/ TaskDequeue(0)
    \/ TaskTimeout
    \/ TaskStatus(0)
    \/ TaskStale
    \/ FacadeCall("c1", "clearErrors", MaxLifeFacade)
    \/ FacadeLock("c1")
    \/ FacadeSend("c1")
    \/ FacadeSent("c1")
    \/ ResetStatistics("c2", MaxLifeFacade)
    \/ \E d \in TimeSteps : Advance(d, MaxLifeNow)

LifeSpec == Init /\ [][LifeNext]_vars

\* the amounts by which the clock is seen to advance in the scenario of the
\* online flag: two of them make the staleness threshold
OnlineSteps == {2500}

\* The online flag: the device sends one DC info frame at some time and is
\* silent afterwards, the clock runs up to MaxOnlineNow.
OnlineNext ==
    \/ BeginCreate("ok")
    \/ BeginFinish
    \/ TaskStart
    \/ TaskRxByte
    \/ TaskRxNone
    \/ TaskDispatch
    \/ TaskDequeue(0)
    \/ TaskTimeout
    \/ TaskStatus(0)
    \/ TaskStale
    \/ DeviceSend(Mk2WireBytes(DcInfoShort), MaxOnlineInbound)
    \/ \E d \in OnlineSteps : Advance(d, MaxOnlineNow)

OnlineSpec == Init /\ [][OnlineNext]_vars

\* the amount by which the clock is seen to advance in the scenario of the
\* facade: more than every wait and than the staleness threshold
FacadeSteps == {5001}

\* the operations thread c1 calls in the scenario of the facade
FacadeOps == {"requestVersionInfo", "setSwitchState", "resetDevice"}

\* the frames the device sends in the scenario of the facade
FacadeMessages == {DcInfoShort, VersionResponse}

\* The facade: thread c1 submits an ESS power command and calls requests and
\* set commands, thread c2 reads snapshots, the device sends one DC info
\* frame or one frame with the code of the version request, the clock runs up
\* to MaxFacadeNow.
FacadeNext ==
    \/ BeginCreate("ok")
    \/ BeginFinish
    \/ Submit("c1", [op |-> "sendEssPowerCommand", arg |-> -300], MaxFacadeCalls)
    \/ TaskStart
    \/ TaskRxByte
    \/ TaskRxNone
    \/ TaskDispatch
    \/ TaskDequeue(0)
    \/ TaskTimeout
    \/ TaskStatus(0)
    \/ TaskStale
    \/ \E op \in FacadeOps : FacadeCall("c1", op, MaxFacadeOps)
    \/ FacadeLock("c1")
    \/ FacadeSend("c1")
    \/ FacadeSent("c1")
    \/ FacadePoll("c1")
    \/ FacadeRxByte("c1")
    \/ FacadeRxNone("c1")
    \/ GetStateCall("c2", MaxFacadeOps)
    \/ GetStateWait("c2")
    \/ GetStateCopy1("c2")
    \/ GetStateCopy2("c2")
    \/ \E f \in FacadeMessages : DeviceSend(Mk2WireBytes(f), MaxFacadeInbound)
    \/ \E d \in FacadeSteps : Advance(d, MaxFacadeNow)

FacadeSpec == Init /\ [][FacadeNext]_vars

\* the calls made in the scenario of the late response: an ESS power
\* command, then custom commands
LateInputs ==
    IF env.calls = 0 THEN {[op |-> "sendEssPowerCommand", arg |-> -300]}
    ELSE BurstInputs

\* The late response: an ESS power command is followed by a burst of custom
\* commands, the device acknowledges at some time, no write fails.
LateNext ==
    \/ BeginCreate("ok")
    \/ BeginFinish
    \/ \E in \in LateInputs : Submit("c1", in, MaxBurst)
    \/ SubmitResume("c1")
    \/ TaskStart
    \/ TaskRxByte
    \/ TaskRxNone
    \/ TaskDispatch
    \/ TaskDequeue(0)
    \/ TaskTimeout
    \/ TaskStatus(0)
    \/ TaskStale
    \/ DeviceSend(Mk2WireBytes(EssAck), MaxLateAcks)
    \/ \E d \in TimeSteps : Advance(d, MaxLateNow)

LateSpec == Init /\ [][LateNext]_vars

\* the calls made in the scenario of the response matching
MatchInputs ==
    { [op |-> "sendEssPowerCommand", arg |-> -300],
      [op |-> "sendCurrentLimitCommand", arg |-> 16],
      [op |-> "sendSwitchCommand", arg |-> VEBUS_SWITCH_ON] }

\* the frames the device sends in the scenario of the response matching
MatchMessages == {EssAck, CurrentLimitAck, SwitchAck, VersionResponse}

\* Response matching: one command of any type is submitted, the device sends
\* one frame, the clock runs up to MaxMatchNow, no write fails.
MatchNext ==
    \/ BeginCreate("ok")
    \/ BeginFinish
    \/ \E in \in MatchInputs : Submit("c1", in, MaxMatchCalls)
    \/ TaskStart
    \/ TaskRxByte
    \/ TaskRxNone
    \/ TaskDispatch
    \/ TaskDequeue(0)
    \/ TaskTimeout
    \/ TaskStatus(0)
    \/ TaskStale
    \/ \E f \in MatchMessages : DeviceSend(Mk2WireBytes(f), MaxMatchInbound)
    \/ \E d \in TimeSteps : Advance(d, MaxMatchNow)

MatchSpec == Init /\ [][MatchNext]_vars

\* the frames the device sends in the scenario of the loop's passes
TickMessages == {DcInfoShort, EssAck}

\* the state after construction, the history of the passes switched on
TickInit ==
    /\ InitHandler
    /\ serialIn = <<>> /\ lastSent = NewFrame /\ now = Time32(0)
    /\ env = [NewEnv EXCEPT !.tick.on = TRUE]
    /\ h = NoHarness
    /\ rs485 = ReceiveMode

\* The passes of the loop: an ESS power command is submitted, the device sends
\* up to MaxTickInbound frames at any time, also back to back, the clock runs
\* up to MaxTickNow, no write fails.
TickNext ==
    \/ BeginCreate("ok")
    \/ BeginFinish
    \/ Submit("c1", [op |-> "sendEssPowerCommand", arg |-> -300], MaxTickCalls)
    \/ TaskStart
    \/ TaskRxByte
    \/ TaskRxNone
    \/ TaskDispatch
    \/ TaskDequeue(0)
    \/ TaskTimeout
    \/ TaskStatus(0)
    \/ TaskStale
    \/ \E f \in TickMessages : DeviceSend(Mk2WireBytes(f), MaxTickInbound)
    \/ \E d \in TimeSteps : Advance(d, MaxTickNow)

TickSpec == TickInit /\ [][TickNext]_vars

\* The unanswered command: one ESS power command is submitted, every write
\* succeeds, the device is silent, the clock runs up to MaxRetryNow.
RetryNext ==
    \/ BeginCreate("ok")
    \/ BeginFinish
    \/ Submit("c1", [op |-> "sendEssPowerCommand", arg |-> -300], MaxRetryCalls)
    \/ TaskStart
    \/ TaskRxNone
    \/ TaskDequeue(0)
    \/ TaskTimeout
    \/ TaskStatus(0)
    \/ TaskStale
    \/ \E d \in TimeSteps : Advance(d, MaxRetryNow)

RetrySpec == Init /\ [][RetryNext]_vars

\* the threads that send in the scenario of the direction lines
PinSenders == {"task", "c1"}

\* The direction lines: thread c2 submits an ESS power command, which the
\* loop sends, the loop sends its status request, thread c1 sends clear-errors
\* commands; the write section of sendFrame is followed step by step.
PinNext ==
    \/ BeginCreate("ok")
    \/ BeginFinish
    \/ Submit("c2", [op |-> "sendEssPowerCommand", arg |-> -300], MaxPinCalls)
    \/ TaskStart
    \/ TaskRxNone
    \/ TaskDequeue(0)
    \/ TaskTimeout
    \/ TaskStatus(0)
    \/ TaskStale
    \/ FacadeCall("c1", "clearErrors", MaxPinOps)
    \/ FacadeLock("c1")
    \/ FacadeSend("c1")
    \/ FacadeSent("c1")
    \/ \E t \in PinSenders : SendTxOn(t)
    \/ \E t \in PinSenders : SendWrite(t, MaxPinBytes)
    \/ \E d \in TimeSteps : Advance(d, MaxPinNow)

PinSpec == Init /\ [][PinNext]_vars

\* The frame assembler: the device sends up to MaxStreamInbound byte streams,
\* nothing is submitted, the clock runs up to MaxStreamNow.
StreamNext ==
    \/ BeginCreate("ok")
    \/ BeginFinish
    \/ TaskStart
    \/ TaskRxByte
    \/ TaskRxNone
    \/ TaskDispatch
    \/ TaskDequeue(0)
    \/ TaskTimeout
    \/ TaskStatus(0)
    \/ TaskStale
    \/ \E m \in StreamMessages : DeviceSend(m, MaxStreamInbound)
    \/ \E d \in TimeSteps : Advance(d, MaxStreamNow)

StreamSpec == Init /\ [][StreamNext]_vars

\* The two readers: thread c1 submits an ESS power command, thread c2 calls
\* requestVersionInfo and polls receiveFrame with the mutex while the loop
\* calls receiveFrame without it; the device sends a Simple header declaring
\* length 124 and the bytes it announces, so that no frame is dispatched; the
\* loop may be preempted between the bounds test and the store of
\* receiveFrame; the clock stands still.
OverlapNext ==
    \/ BeginCreate("ok")
    \/ BeginFinish
    \/ Submit("c1", [op |-> "sendEssPowerCommand", arg |-> -300], MaxOverlapCalls)
    \/ TaskStart
    \/ TaskRxByte
    \/ TaskRxCheck
    \/ TaskRxStore
    \/ TaskRxNone
    \/ TaskDequeue(0)
    \/ TaskTimeout
    \/ TaskStatus(0)
    \/ TaskStale
    \/ FacadeCall("c2", "requestVersionInfo", MaxOverlapOps)
    \/ FacadeLock("c2")
    \/ FacadeSend("c2")
    \/ FacadePoll("c2")
    \/ FacadeRxByte("c2")
    \/ FacadeRxNone("c2")
    \/ DeviceSend(SimpleStream(124), MaxOverlapInbound)

OverlapSpec == Init /\ [][OverlapNext]_vars

\* The partial frame: the device sends up to MaxPartialInbound messages, some
\* of them cut short, nothing is submitted, the clock runs up to
\* MaxPartialNow; the loop runs every 10 ms and the clock advances.
PartialNext ==
    \/ BeginCreate("ok")
    \/ BeginFinish
    \/ TaskStart
    \/ TaskRxByte
    \/ TaskRxNone
    \/ TaskDispatch
    \/ TaskDequeue(0)
    \/ TaskTimeout
    \/ TaskStatus(0)
    \/ TaskStale
    \/ \E m \in PartialMessages : DeviceSend(m, MaxPartialInbound)
    \/ \E d \in TimeSteps : Advance(d, MaxPartialNow)

PartialSpec ==
    /\ Init /\ [][PartialNext]_vars
    /\ WF_vars(TaskStep(0))
    /\ WF_vars(\E d \in TimeSteps : Advance(d, MaxPartialNow))

\* The wraparound of millis(): one ESS power command is submitted at any of
\* the instants of WrapInstants, every write succeeds, the device is silent.
WrapNext ==
    \/ BeginCreate("ok")
    \/ BeginFinish
    \/ Submit("c1", [op |-> "sendEssPowerCommand", arg |-> -300], MaxWrapCalls)
    \/ TaskStart
    \/ TaskRxNone
    \/ TaskDequeue(0)
    \/ TaskTimeout
    \/ TaskStatus(0)
    \/ TaskStale
    \/ WrapAdvance

WrapSpec == Init /\ [][WrapNext]_vars

\* the operations thread c1 calls in the scenario of the mutex
LockOps == {"requestVersionInfo", "setSwitchState"}

\* the steps of a request or a set command in thread c; no command was sent
\* before, so responseTimeout is 0 and the poll loop of a request ends at its
\* first test
LockFacadeStep(c) ==
    \/ \E op \in LockOps : FacadeCall(c, op, MaxLockOps)
    \/ FacadeLock(c)
    \/ FacadeSend(c)
    \/ FacadeSent(c)
    \/ FacadePoll(c)

\* the steps of getDeviceState in thread c
LockReadStep(c) ==
    \/ GetStateCall(c, MaxLockOps)
    \/ GetStateWait(c)
    \/ GetStateCopy1(c)
    \/ GetStateCopy2(c)

\* the steps of the loop when nothing is submitted
LockLoopStep ==
    \/ TaskStart
    \/ TaskRxByte
    \/ TaskRxNone
    \/ TaskDispatch
    \/ TaskDequeue(0)
    \/ TaskTimeout
    \/ TaskStatus(0)
    \/ TaskStale

\* The mutex: thread c1 calls requests and set commands, thread c2 reads
\* snapshots, the device sends one DC info frame, the clock runs up to
\* MaxLockNow; the engine is started and not stopped.  Every thread that can
\* run does run, and the clock advances.
LockNext ==
    \/ BeginCreate("ok")
    \/ BeginFinish
    \/ LockLoopStep
    \/ LockFacadeStep("c1")
    \/ LockReadStep("c2")
    \/ DeviceSend(Mk2WireBytes(DcInfoShort), MaxLockInbound)
    \/ \E d \in FacadeSteps : Advance(d, MaxLockNow)

LockSpec ==
    /\ Init /\ [][LockNext]_vars
    /\ WF_vars(BeginFinish)
    /\ WF_vars(LockLoopStep)
    /\ WF_vars(LockFacadeStep("c1"))
    /\ WF_vars(LockReadStep("c2"))
    /\ WF_vars(\E d \in FacadeSteps : Advance(d, MaxLockNow))

(***************************************************************************)
(* Properties of the command path                                          *)
(***************************************************************************)
InQueue(u) == \E i \in DOMAIN queueItems : queueItems[i].uid = u
Awaiting(u) == waitingForResponse /\ pendingCommand.uid = u
InHand(u) == task.pc = "requeue" /\ task.commandItem.uid = u

\* command u is in the queue, in the awaiting slot, or in the loop's hands
\* between a failed send and its re-enqueue
Holds(u) == InQueue(u) \/ Awaiting(u) \/ InHand(u)

\* C1: retry bound: a queued command whose every send attempt failed and that
\* is no longer in the queue nor in the awaiting slot was attempted exactly
\* maxRetries + 1 = 4 times.
C1_RetryBound ==
    \A u \in env.accepted :
        (~Holds(u) /\ u \notin env.sentOk) =>
            env.tries[u] = VEBUS_MAX_RETRY_COUNT + 1

\* C9: queue exhaustion: a submission made while the queue holds 10 items
\* returns false without blocking: until it has returned no loop step takes
\* place and the queue does not change, and it returns false.
C9_QueueFullReturnsFalse ==
    [][\A c \in Callers :
         (callers[c].pc = "blocked" \/
            (QueueFull /\ env'.calls = env.calls + 1 /\ callers[c].pc = "idle"
               /\ callers'[c] # callers[c])) =>
           /\ task' = task
           /\ queueItems' = queueItems
           /\ callers'[c].pc = "idle" /\ callers'[c].ret = "false"]_vars

\* C10: NotInitialized is a returned failure: a command submission made
\* before begin() or after end() returns false without crashing and without
\* changing any state of the handler.
C10_NotInitializedReturnsFalse ==
    [][(serial = "null" /\ env'.calls = env.calls + 1) =>
         /\ fault' = "none"
         /\ lastCommandId' = lastCommandId
         /\ queueItems' = queueItems
         /\ \E c \in Callers : callers'[c].ret = "false"]_vars

\* the frame the next byte completes
Completed == Append(rxBuffer, Head(serialIn))

\* the next byte read completes a Simple frame whose last byte is not 0x55
\* minus the bytes before it, or an Extended frame that isChecksumValidMk3
\* rejects whatever its out-of-bounds reads give
CompletesInvalid ==
    /\ task.pc = "rx" /\ serialIn # <<>>
    /\ rxBuffer # <<>> /\ Len(rxBuffer) < VEBUS_FRAME_SIZE
    /\ isFrameComplete(Completed)
    /\ IF At(Completed, 0) = VEBUS_SYNC_BYTE
       THEN /\ At(Completed, 3) <= VEBUS_MK3_MAX_DATA_SIZE
            /\ At(Completed, Len(Completed) - 1) #
                  U8(85 - SumBytes(SubSeq(Completed, 1, Len(Completed) - 1)))
       ELSE \A oob \in OobChoices : ~parseMk3Frame(NewFrame, Completed, oob).ok

\* C6: invalid frames are never exposed: the step of receiveFrame that
\* completes a frame whose checksum does not validate emits no frame, adds
\* exactly 1 to checksumErrors, resets the buffer to Idle and changes neither
\* DeviceState nor framesReceived.
C6_InvalidNeverExposed ==
    [][(CompletesInvalid /\ serialIn' = Tail(serialIn)) =>
         /\ task'.pc = "rx"
         /\ stats' = [stats EXCEPT !.checksumErrors = @ + 1]
         /\ rxBuffer' = <<>>
         /\ deviceState' = deviceState]_vars

\* the Simple frame of the accept scenario with its checksum byte raised by
\* 1 was read to its end and discarded
C6_Witness ==
    /\ env.inbound = 1 /\ serialIn = <<>> /\ rxBuffer = <<>>
    /\ task.receivedFrame.command = 2
    /\ task.receivedFrame.checksum = U8(DcInfoShort.checksum + 1)
    /\ stats.checksumErrors = 1 /\ stats.framesReceived = 0
    /\ ~deviceState.isOnline

\* the ways a command leaves the queue and the awaiting slot in one step
SentNoResponse(u) ==
    /\ task.pc = "deq" /\ queueItems # <<>> /\ Head(queueItems).uid = u
    /\ ~Head(queueItems).waitForResponse
    /\ stats'.framesSent = stats.framesSent + 1

Acknowledged(u) ==
    /\ task.pc = "dispatch" /\ task'.pc = "deq" /\ Awaiting(u)
    /\ task.receivedFrame.command = pendingCommand.frame.command

DroppedAfterRetries(u) ==
    /\ task.pc = "deq" /\ queueItems # <<>> /\ Head(queueItems).uid = u
    /\ stats'.framesDropped = stats.framesDropped + 1
    /\ Head(queueItems).retryCount = VEBUS_MAX_RETRY_COUNT

ExpiredAfterRetries(u) ==
    /\ task.pc = "timeout" /\ task'.pc = "status" /\ Awaiting(u)
    /\ Gt32(now, responseTimeout)
    /\ pendingCommand.retryCount = VEBUS_MAX_RETRY_COUNT

\* another response-awaiting command is sent and takes the awaiting slot
Superseded(u) ==
    /\ task.pc = "deq" /\ Awaiting(u)
    /\ queueItems # <<>> /\ Head(queueItems).uid # u
    /\ Head(queueItems).waitForResponse
    /\ stats'.framesSent = stats.framesSent + 1

\* the re-enqueue of a retry finds the queue full
RequeueRefused(u) ==
    /\ QueueFull
    /\ \/ task.pc = "requeue" /\ task'.pc = "timeout" /\ InHand(u)
       \/ /\ task.pc = "timeout" /\ task'.pc = "status" /\ Awaiting(u)
          /\ Gt32(now, responseTimeout)

\* command u leaves in this step
Leaves(u) == Holds(u) /\ ~Holds(u)'

\* the clock of the model stops before the deadline of the awaiting command
DeadlineBeyondClock(u) ==
    /\ Awaiting(u)
    /\ \A d \in TimeSteps : Gt32(Add32(now, d), Time32(MaxNow))
    /\ ~Gt32(now, responseTimeout)

\* while the loop runs a command held by the engine eventually leaves it
EventuallyLeaves ==
    \A u \in 1..MaxCalls :
        [](Holds(u) => <>(\/ ~Holds(u)
                          \/ ~TaskAlive
                          \/ fault # "none"
                          \/ DeadlineBeyondClock(u)))

C11_FailedStartNotStarted ==
    [][(beginPc = "idle" /\ env'.begins = env.begins + 1 /\ beginPc' = "idle") =>
         /\ serial' = "null"
         /\ ~isRunning'
         /\ mutex' # "freed"
         /\ commandQueue' # "freed"]_vars

\* C12: a successful start means Running: once begin() has returned true and
\* until end() is called, the task of the Bus Driver Loop is alive, whatever
\* the interleaving of the created task with the rest of begin().
C12_StartedMeansRunning ==
    (isRunning /\ beginPc = "idle" /\ fault = "none") => TaskAlive

\* C20: statistics are append-only: a step in which one of the six counters
\* decreases is a call of resetStatistics.
C20_StatsAppendOnly ==
    [][(\E k \in DOMAIN stats : stats'[k] < stats[k]) =>
          env'.resets = env.resets + 1]_vars

(***************************************************************************)
(* Properties of the Device State Store and of the statistics              *)
(***************************************************************************)
\* C13: staleness: with the last dispatch at time T (lastUpdateTime) and none
\* afterwards, isDeviceOnline() is true at time T and false at every time
\* t >= T + 5000 ms, t = T + 5000 included.
C13_StaleAtThreshold ==
    stats.framesReceived > 0 =>
        /\ now = deviceState.lastUpdateTime => isDeviceOnline
        /\ ~Gt32(Time32(STALE_TIMEOUT_MS), Sub32(now, deviceState.lastUpdateTime))
              => ~isDeviceOnline

\* C15: communication quality range: getCommunicationQuality() is 0.0 when
\* framesSent + framesReceived = 0 and lies in [0, 1] otherwise, that is
\* checksumErrors + timeoutErrors + framesDropped <= framesSent +
\* framesReceived.
C15_QualityInRange ==
    LET q == getCommunicationQuality
    IN  IF stats.framesSent + stats.framesReceived = 0
        THEN q.num = 0
        ELSE 0 <= q.num /\ q.num <= q.den

\* the frame the loop is about to dispatch has the checksum its validation
\* demands
DispatchingValidFrame ==
    LET f == task.receivedFrame
    IN  /\ task.pc = "dispatch"
        /\ IF f.isMk3Frame
           THEN \E oob \in OobChoices : isChecksumValidMk3(f, oob)
           ELSE f.checksum = U8(85 - f.sync - f.address - f.command - f.length
                                   - SumBytes(Prefix(f.data, f.length)))

\* C14: the online flag changes from false to true only in the dispatch of a
\* frame that passed checksum validation, whatever requests, set commands,
\* resets and snapshot reads the callers make; and the loop, when it finds
\* the state older than the staleness threshold, clears the flag.
C14_OnlineOnlyByDispatch ==
    [][/\ (~deviceState.isOnline /\ deviceState'.isOnline) =>
            /\ DispatchingValidFrame
            /\ task'.pc = "deq"
            /\ stats'.framesReceived = stats.framesReceived + 1
            /\ callers' = callers
       /\ (/\ task.pc = "stale" /\ task'.pc # "stale"
           /\ Gt32(Sub32(now, deviceState.lastUpdateTime),
                   Time32(STALE_TIMEOUT_MS))) =>
            ~deviceState'.isOnline]_vars

\* the flag was set by a dispatch, a snapshot read returned it set, a set
\* command was sent, and the loop cleared the flag when the state was stale
C14_Witness ==
    /\ stats.framesReceived = 1 /\ ~deviceState.isOnline
    /\ Gt32(Sub32(now, deviceState.lastUpdateTime), Time32(STALE_TIMEOUT_MS))
    /\ deviceState.switchState = VEBUS_SWITCH_ON
    /\ callers["c2"].ret = "snapshot" /\ callers["c2"].snap.isOnline
    /\ env.facade = MaxFacadeOps

\* C16: snapshot read: the copy a getDeviceState() call returns equals the
\* content deviceState had at some instant during the call.
C16_SnapshotRead ==
    [][\A c \in Callers :
         (callers[c].pc \in {"getwait", "copy2"} /\ callers'[c].pc = "idle") =>
            callers'[c].snap \in env.seen]_vars

\* the loop executes receiveFrame, or sendFrame, in this step
LoopReceives ==
    /\ task.pc = "rx" /\ callers' = callers
    /\ serialIn' # serialIn \/ task'.pc = "deq"

LoopSends ==
    \/ task.pc = "deq" /\ queueItems # <<>> /\ task'.pc # "deq"
    \/ task.pc = "status" /\ task'.frameNumber # task.frameNumber

\* C18: serialization of the two I/O paths: while a caller is between taking
\* the mutex and the return of sendFrame, or inside receiveFrame, the loop
\* executes neither receiveFrame nor sendFrame.
C18_IoSerialized ==
    [][(\E c \in Callers : callers[c].pc \in {"send", "frx"}) =>
          ~(LoopReceives \/ LoopSends)]_vars

\* C19: set commands go through the queue: no set command has sendFrame
\* executed in the caller's thread, and a set command that returns true has
\* put one item into the queue.
C19_SetThroughQueue ==
    [][\A c \in Callers :
         callers[c].op \in SetOps =>
            /\ ~(callers[c].pc = "send" /\ callers'[c].pc = "sent")
            /\ (callers[c].pc # "idle" /\ callers'[c].pc = "idle"
                  /\ callers'[c].ret = "true") =>
                 Len(queueItems') = Len(queueItems) + 1]_vars

\* the loop finds the deadline of the awaiting command u passed
TimesOut(u) ==
    /\ task.pc = "timeout" /\ task'.pc = "status"
    /\ Awaiting(u) /\ Gt32(now, responseTimeout)

\* C17: timeout-then-success: a command whose deadline has passed when the
\* loop checks it is treated as timed out, timeoutErrors + 1 and, if
\* retryCount < maxRetries, re-enqueued with retransmissions + 1; a frame
\* that arrives afterwards is still dispatched to the Device State Store and
\* counted in framesReceived.
C17_TimeoutThenSuccess ==
    [][/\ \A u \in 1..MaxBurst :
            TimesOut(u) =>
               /\ stats'.timeoutErrors = stats.timeoutErrors + 1
               /\ ~waitingForResponse'
               /\ pendingCommand.retryCount < VEBUS_MAX_RETRY_COUNT =>
                     /\ InQueue(u)'
                     /\ stats'.retransmissions = stats.retransmissions + 1
       /\ (task.pc = "dispatch" /\ task'.pc = "deq") =>
            /\ stats'.framesReceived = stats.framesReceived + 1
            /\ deviceState'.isOnline
            /\ deviceState'.lastUpdateTime = now]_vars

\* the loop dispatches the valid frame it received
Dispatches == task.pc = "dispatch" /\ task'.pc = "deq"

\* C21: response matching is by command code equality for every command
\* type: when a command with code c is in the awaiting slot and a valid frame
\* with command code c is dispatched, the await is cleared, for ESS power,
\* current limit, switch and custom commands alike.
C21_MatchByCommandCode ==
    [][(/\ Dispatches
        /\ waitingForResponse
        /\ task.receivedFrame.command = pendingCommand.frame.command)
          => ~waitingForResponse']_vars

\* the command codes processReceivedFrame has a case for
HandledCommands == {2, 3, 4, VEBUS_CMD_SET_ESS_POWER}

\* C27: dispatching a valid frame whose command code is none of the handled
\* ones leaves every DeviceState field unchanged, lastUpdateTime and online
\* included.
C27_UnknownIgnored ==
    [][(Dispatches /\ task.receivedFrame.command \notin HandledCommands)
          => deviceState' = deviceState]_vars

\* the bytes hold the wire form of frame f
HasFrame(bytes, f) ==
    LET w == Mk2WireBytes(f)
    IN  \E i \in 1..Len(bytes) :
          /\ i + Len(w) - 1 <= Len(bytes)
          /\ SubSeq(bytes, i, i + Len(w) - 1) = w

\* C22: tick ordering: in any tick where the awaiting command's deadline has
\* passed and its matching valid response is available in the inbound bytes
\* at the start of the tick, the await is satisfied: the timeout handling of
\* that tick counts no timeout and enqueues no retransmission.
C22_FreshFrameBeforeTimeout ==
    [][(/\ task.pc = "timeout" /\ task'.pc = "status"
        /\ env.tick.late
        /\ pendingCommand.frame.command = VEBUS_CMD_SET_ESS_POWER
        /\ HasFrame(env.tick.inbound, EssAck))
          => /\ stats'.timeoutErrors = stats.timeoutErrors
             /\ queueItems' = queueItems]_vars

\* C25: per-tick drain: step 1 of every loop tick consumes all inbound bytes
\* that were available at the start of the tick, also when two or more
\* complete frames are available at once.
C25_PerTickDrain ==
    [][(/\ env.tick.on
        /\ task.pc \in {"rx", "dispatch"} /\ task'.pc = "deq")
          => env'.tick.read >= Len(env.tick.inbound)]_vars

\* C23: response-timeout retry: a response-awaiting command that is always
\* sent successfully and never answered, with no other command submitted, is
\* transmitted at most maxRetries + 1 = 4 times and exactly 4 times once it
\* is abandoned; each deadline expiry increments timeoutErrors by 1 and
\* empties the awaiting slot; an expiry with retryCount < 3 re-enqueues the
\* command with retryCount + 1 and retransmissions + 1, the expiry with
\* retryCount = 3 abandons it.
C23_ResponseTimeoutRetry ==
    [][\A u \in 1..MaxRetryCalls :
         env'.calls <= 1 =>
         /\ TimesOut(u) =>
              /\ stats'.timeoutErrors = stats.timeoutErrors + 1
              /\ ~waitingForResponse'
              /\ IF pendingCommand.retryCount < VEBUS_MAX_RETRY_COUNT
                 THEN /\ queueItems' =
                           Append(queueItems,
                                  [pendingCommand EXCEPT !.retryCount = @ + 1])
                      /\ stats'.retransmissions = stats.retransmissions + 1
                 ELSE /\ queueItems' = queueItems
                      /\ stats'.retransmissions = stats.retransmissions
                      /\ ~Holds(u)'
         /\ env'.tries[u] <= VEBUS_MAX_RETRY_COUNT + 1
         /\ (u \in env'.accepted /\ ~Holds(u)') =>
              env'.tries[u] = VEBUS_MAX_RETRY_COUNT + 1]_vars

\* the command was transmitted four times, timed out four times and is
\* abandoned
C23_Witness ==
    /\ 1 \in env.accepted /\ ~Holds(1)
    /\ env.tries[1] = VEBUS_MAX_RETRY_COUNT + 1
    /\ stats.timeoutErrors = VEBUS_MAX_RETRY_COUNT + 1
    /\ stats.retransmissions = VEBUS_MAX_RETRY_COUNT

\* receiveFrame, called by the request of caller c, returns a valid frame
FacadeReceives(c) ==
    /\ callers[c].pc = "frx" /\ callers'[c].pc # "frx"
    /\ serialIn' # serialIn

\* C24: every valid frame is dispatched and counted: each frame the assembler
\* completes and validates, on whichever thread receiveFrame runs (the loop
\* or a facade request's polling loop), is dispatched to the Device State
\* Store and increments framesReceived by one.
C24_EveryValidFrameDispatched ==
    [][/\ Dispatches =>
            /\ stats'.framesReceived = stats.framesReceived + 1
            /\ deviceState' = dispatch(deviceState, task.receivedFrame)
       /\ \A c \in Callers :
            FacadeReceives(c) =>
               /\ stats'.framesReceived = stats.framesReceived + 1
               /\ deviceState' = dispatch(deviceState, callers'[c].item.frame)]_vars

\* C26: single writer: no step of a thread other than the Bus Driver Loop
\* modifies DeviceState or the Statistics counters (explicit statistics reset
\* excepted), and DeviceState is modified only when no other thread holds the
\* mutex.
C26_SingleWriter ==
    [][/\ (stats' # stats /\ env'.resets = env.resets) => task' # task
       /\ deviceState' # deviceState =>
            /\ task' # task
            /\ mutexOwner = "none"]_vars

\* the time since the request of caller c sent its frame
SinceSend(c) == Sub32(now, callers[c].since)

\* C28: facade requests wait the response timeout: after a successful send a
\* synchronous request keeps waiting for the matching frame only while less
\* than the response timeout (1000 ms) has passed since the send, and it does
\* not return failure before that time when the valid matching frame has
\* arrived, whatever the state of the loop's awaiting slot and whether or not
\* any queued command was ever sent.
C28_RequestWaitsTimeout ==
    [][\A c \in Callers :
         /\ (callers[c].pc = "poll" /\ callers'[c].pc = "frx") =>
               Gt32(Time32(VEBUS_TIMEOUT_MS), SinceSend(c))
         /\ (/\ callers[c].pc = "poll" /\ callers'[c].pc = "idle"
             /\ callers'[c].ret = "false"
             /\ HasFrame(serialIn, VersionResponse)) =>
               ~Gt32(Time32(VEBUS_TIMEOUT_MS), SinceSend(c))]_vars

\* C29: the direction toggle brackets every write: whenever a byte is written
\* to the serial channel both direction lines (driver-enable, send-enable)
\* are in transmit, and every send call returns them to receive after the
\* flush, for every interleaving of senders.
C29_DirectionBracketsWrite ==
    [][/\ rs485'.written # rs485.written =>
            rs485.de = "HIGH" /\ rs485.se = "HIGH"
       /\ \A t \in PinSenders :
            (t \in rs485.sending /\ t \notin rs485'.sending) =>
               rs485'.de = "LOW" /\ rs485'.se = "LOW"]_vars

\* the step is the loop's first send attempt of the j-th accepted command
FirstAttempt(j) ==
    env.tries[env.order[j]] = 0 /\ env'.tries[env.order[j]] = 1

\* C30: FIFO service: for any two accepted commands A and B where A was
\* accepted before B, the loop's first send attempt of A precedes its first
\* send attempt of B; the loop takes commands from the front of the queue,
\* and a submitted or retried command is inserted behind all commands queued
\* at that moment.
C30_FifoService ==
    [][/\ \A j \in DOMAIN env.order :
            FirstAttempt(j) =>
               \A i \in 1..(j - 1) : env.tries[env.order[i]] >= 1
       /\ Len(queueItems') = Len(queueItems) + 1 =>
            SubSeq(queueItems', 1, Len(queueItems)) = queueItems
       /\ Len(queueItems') = Len(queueItems) - 1 =>
            queueItems' = Tail(queueItems)]_vars

\* two commands were accepted and both were attempted, and the one that
\* failed waits in the queue again, behind a command not yet attempted
C30_Witness ==
    /\ Len(env.order) >= 3
    /\ env.tries[env.order[1]] >= 1 /\ env.tries[env.order[2]] >= 1
    /\ \E i, j \in DOMAIN queueItems :
         /\ i < j
         /\ queueItems[i].retryCount = 0 /\ env.tries[queueItems[i].uid] = 0
         /\ queueItems[j].retryCount > 0


(***************************************************************************)
(* Properties of the frame assembler                                       *)
(***************************************************************************)
\* the next byte read is stored and the assembler declares the Simple frame
\* in the buffer complete: it hands the buffer to the decoder and empties it
DeclaresSimpleComplete ==
    /\ task.pc = "rx" /\ serialIn # <<>> /\ serialIn' = Tail(serialIn)
    /\ rxBuffer # <<>> /\ Len(rxBuffer) < VEBUS_FRAME_SIZE
    /\ At(rxBuffer, 0) = VEBUS_SYNC_BYTE
    /\ rxBuffer' = <<>>

\* C31: Simple completion rule without wraparound: for every declared length
\* L in 0..255 the assembler declares a Simple frame complete only when the
\* buffer holds 4 + L + 1 bytes, computed as an integer, and a frame whose
\* 4 + L + 1 exceeds the 128-byte buffer is never declared complete.
C31_SimpleCompleteAtDeclaredLength ==
    [][DeclaresSimpleComplete =>
         LET L == At(Completed, 3)
         IN  /\ Len(Completed) = 4 + L + 1
             /\ 4 + L + 1 <= VEBUS_FRAME_SIZE]_vars

\* the next byte read completes a frame that receiveFrame returns as valid
EmitsValid ==
    /\ task.pc = "rx" /\ serialIn # <<>> /\ serialIn' = Tail(serialIn)
    /\ task'.pc = "dispatch"

\* C32: payload bound: every frame the assembler emits as valid has
\* length <= 120, its payload is exactly the length payload bytes received,
\* and the checksum validated is the byte that follows the last payload byte
\* on the wire; no frame of declared length 121..123 is accepted with a
\* truncated payload.
C32_PayloadBound ==
    [][EmitsValid =>
         LET f == task'.receivedFrame
         IN  /\ f.length <= VEBUS_MK3_MAX_DATA_SIZE
             /\ Len(f.data) = f.length
             /\ ~f.isMk3Frame =>
                  /\ f.length = At(Completed, 3)
                  /\ f.data = SubSeq(Completed, 5, 4 + f.length)
                  /\ f.checksum = At(Completed, 4 + f.length)]_vars

\* a byte arrives while the buffer holds 128 bytes: a pass of receiveFrame
\* by the loop or by a request reads it
ArrivesAtFullBuffer ==
    /\ Len(rxBuffer) = VEBUS_FRAME_SIZE
    /\ serialIn # <<>> /\ serialIn' = Tail(serialIn)

\* C33: buffer bound: in every reachable state 0 <= rxBufferPos <= 128 and
\* no byte is stored outside rxBuffer; whenever a byte arrives while the
\* buffer holds 128 bytes with no frame boundary recognized, the assembler
\* resets to Idle and framesDropped increases by exactly 1.
C33_BufferBound ==
    /\ [](Len(rxBuffer) <= VEBUS_FRAME_SIZE)
    /\ [][ArrivesAtFullBuffer =>
            /\ rxBuffer' = <<>>
            /\ stats' = [stats EXCEPT !.framesDropped = @ + 1]]_vars

\* the loop executes a pass of receiveFrame while the buffer holds a partial
\* frame whose last byte was received more than 100 ms ago
ReceivesWithStalePartial ==
    /\ task.pc = "rx" /\ rxBuffer # <<>>
    /\ Gt32(Sub32(now, lastRxTime), Time32(RX_PARTIAL_TIMEOUT_MS))
    /\ serialIn' # serialIn \/ task'.pc = "deq"

\* once the device has fallen silent and its bytes are read, with the clock
\* still able to advance, a Collecting state is followed by Idle
PartialEventuallyIdle ==
    (rxBuffer # <<>> /\ serialIn = <<>> /\ now = Time32(0)
       /\ env.inbound = MaxPartialInbound)
      ~> (rxBuffer = <<>>)

\* C34: partial-frame recovery: whenever the buffer holds a partial frame and
\* more than 100 ms have passed since the last received byte, the next
\* receive step empties the buffer, returns the assembler to Idle and
\* increases framesDropped by exactly 1; hence a Collecting state, also one
\* whose first byte 0x98 was not followed by 0xF7, is eventually followed by
\* Idle.
C34_PartialFrameRecovery ==
    /\ [][ReceivesWithStalePartial =>
            /\ rxBuffer' = <<>>
            /\ stats' = [stats EXCEPT !.framesDropped = @ + 1]]_vars
    /\ PartialEventuallyIdle

\* C35: Extended frames are delimited only by their last byte, for every
\* sequence number 0..255: in the bytes sendFrameMk3Correct writes the end
\* marker 0xFF occurs only as the final byte, and the assembler declares an
\* Extended frame complete only at that final byte, also when the unescaped
\* frame-number header byte is 0xFF.
C35_EndMarkerOnlyLast ==
    (h.frame.isMk3Frame /\ h.phase \in {"feeding", "fed"}) =>
        LET w == WireBytes(h.frame)
        IN  /\ w[Len(w)] = VEBUS_MK3_END_FRAME
            /\ \A i \in 1..(Len(w) - 1) : w[i] # VEBUS_MK3_END_FRAME
            /\ h.phase = "feeding" => (h.decoded = <<>> /\ h.errors = 0)

(***************************************************************************)
(* Properties of the frames written, of the retry counter and of the       *)
(* response deadline                                                       *)
(***************************************************************************)
\* the bytes w of an Extended frame end with a checksum (stuffed as FA and
\* the checksum minus 0xFA when it is 0xFB or more) that is 1 minus the bytes
\* after the two header bytes, and with the end marker
Mk3ChecksumOnWire(w) ==
    LET n == Len(w)
        stuffed == w[n - 2] = VEBUS_MK3_STUFF_BYTE
        cs == IF stuffed THEN w[n - 1] + VEBUS_MK3_STUFF_BYTE ELSE w[n - 1]
        covered == SubSeq(w, 3, n - (IF stuffed THEN 3 ELSE 2))
    IN  /\ w[n] = VEBUS_MK3_END_FRAME
        /\ cs = U8(1 - SumBytes(covered))

\* the bytes sendFrame writes for frame f carry the checksum of f's variant
ChecksumOnWire(f) ==
    IF f.isMk3Frame THEN Mk3ChecksumOnWire(WireBytes(f))
    ELSE LET w == WireBytes(f)
         IN  w[Len(w)] = U8(85 - SumBytes(SubSeq(w, 1, Len(w) - 1)))

\* C36: every frame written to the wire carries a valid checksum under its
\* variant's rule, whichever operation built it: queued commands, the
\* periodic status request, facade requests and direct set commands.
C36_WrittenFramesValid ==
    [][lastSent' # lastSent => ChecksumOnWire(lastSent')]_vars

\* the loop puts a command back into the queue in this step
LoopReenqueues ==
    /\ task' # task
    /\ Len(queueItems') = Len(queueItems) + 1

\* C37: the retransmissions counter counts real re-enqueues: it increases by
\* 1 exactly when a command is successfully put back into the queue, on the
\* send-failure path and on the timeout path alike, for every interleaving
\* with producer threads that may fill the queue between the loop's dequeue
\* and its re-enqueue.
C37_RetransmissionsCountReenqueues ==
    [][(stats'.retransmissions = stats.retransmissions + 1) <=> LoopReenqueues]_vars

\* the loop judges the awaited response timed out in this step
JudgedTimedOut ==
    /\ task.pc = "timeout" /\ task'.pc = "status"
    /\ waitingForResponse /\ ~waitingForResponse'

\* the time since the successful send of the awaiting command: the send set
\* responseTimeout to its millis() plus VEBUS_TIMEOUT_MS (mod 2^32)
SinceSuccessfulSend ==
    Sub32(now, Sub32(responseTimeout, Time32(VEBUS_TIMEOUT_MS)))

\* C38: response deadline across the clock's wraparound: a command awaiting
\* a response is never judged timed out before 1000 ms have elapsed since
\* its successful send, also when the send time plus 1000 overflows 2^32.
C38_NoEarlyTimeout ==
    [][JudgedTimedOut =>
         ~Gt32(Time32(VEBUS_TIMEOUT_MS), SinceSuccessfulSend)]_vars

(***************************************************************************)
(* Properties of the mutex and of end()                                    *)
(***************************************************************************)
\* the positions of a caller thread between its xSemaphoreTake and its
\* xSemaphoreGive, and those in which it waits for the mutex
HoldingPcs == {"send", "poll", "frx", "copy1", "copy2"}
WaitingPcs == {"lock", "getwait"}

\* the mutex is held only by a thread between its take and its give, a
\* thread that waits for it does not hold it, and it passes from a holder to
\* nobody by a step of the holder
LockDiscipline ==
    [][/\ \A c \in Callers :
            /\ mutexOwner' = c => callers'[c].pc \in HoldingPcs
            /\ callers'[c].pc \in WaitingPcs => mutexOwner' # c
       /\ mutexOwner' \in Callers \cup {"none"}
       /\ (mutexOwner # "none" /\ mutexOwner' # mutexOwner) =>
            /\ mutexOwner' = "none"
            /\ callers'[mutexOwner] # callers[mutexOwner]]_vars

\* begin() has returned true and end() was not called
Running == isRunning /\ beginPc = "idle"

\* while the engine is Running the loop reaches the end of its body and,
\* from there, the beginning of the next pass, again and again
LoopProgress ==
    /\ Running ~> (task.pc = "stale")
    /\ Running ~> (task.pc = "rx")

\* C39: lock discipline and progress: every mutex acquisition by the loop,
\* by getDeviceState and by a facade or set operation is followed by a
\* release by the same thread on every return path, no thread waits for the
\* mutex while holding it, and under fair scheduling the loop completes
\* ticks infinitely often while the engine is Running.
C39_LockDisciplineAndProgress ==
    /\ LockDiscipline
    /\ LoopProgress

\* end() deletes the mutex, the queue and the serial handle in this step
EndDeletes == mutex = "live" /\ mutex' = "null" /\ serial' = "null"

\* a thread uses a null or deleted handle in this step
UsesDeadHandle == fault = "none" /\ fault' # "none"

\* C40: stop releases nothing that is in use: end() never deletes the mutex,
\* the queue or the serial handle while another thread holds the mutex or is
\* inside an operation that uses them, and after end() has returned no
\* thread accesses a deleted mutex, queue or serial handle.
C40_StopReleasesNothingInUse ==
    [][/\ EndDeletes =>
            /\ mutexOwner = "none"
            /\ \A c \in Callers : callers[c].pc = "idle"
       /\ (UsesDeadHandle /\ beginPc' = beginPc) => serial # "null"]_vars
====
